---- MODULE Spec2Model ----
(***************************************************************************)
(* Hotel management client (stewartlemu): the booking life cycle and the   *)
(* session manager, modelled from the TypeScript sources.                  *)
(*                                                                         *)
(* Every handler is an async function.  It is cut at its awaits: one       *)
(* action is one gateway call together with the synchronous code that      *)
(* follows it up to the next await, so that calls of different browser     *)
(* sessions interleave exactly where the event loop lets them.             *)
(***************************************************************************)
EXTENDS Integers, Sequences, FiniteSets, TLC

(***************************************************************************)
(* Bounds of the model.                                                    *)
(***************************************************************************)
MaxDay == 3
MaxBookings == 2
MaxGuests == 3
MaxRequests == 2
MaxQuantity == 3
MaxOrders == 2
MaxCalls == 2

Days == 1..MaxDay

(***************************************************************************)
(* Program constants.                                                      *)
(***************************************************************************)
\* useState('') of the two date inputs: no date chosen
NoDate == 0
\* useState<ActiveBooking | null>(null): no active booking found
NoBooking == 0

RoomIds == {"101", "201"}
GuestIds == {"g1", "g2"}
AdminSessions == {"a1"}

RoomStatus == {"available", "occupied", "maintenance"}
BookingStatus == {"pending", "approved", "rejected"}

\* capacity and price_per_night of the rooms 101 and 201 of addTestRooms
Capacity == ("101" :> 2) @@ ("201" :> 3)
PricePerNight == ("101" :> 100) @@ ("201" :> 150)

\* outcomes of one gateway call: the data store answers, or the call fails
CallOutcome == {"ok", "error"}

VARIABLES
    \* ---- the data store ----
    rooms,          \* rooms.status by room id
    bookings,       \* the bookings table: a sequence, the id is the index
    today,          \* the current date
    \* ---- admin BookRequests screen, one per admin browser session ----
    brPc,           \* where the screen's async code is
    brRequests,     \* useState requests: the fetched pending bookings
    brLoading,      \* useState loading
    brError,        \* useState error
    brAction,       \* arguments of the handleRequestAction in flight
    \* ---- guest BookRoom screen, one per guest ----
    gPc,            \* where the screen's async code is
    gRooms,         \* useState rooms: the fetched available rooms
    gLoading,       \* useState loading
    gError,         \* useState error (also carries the success message)
    gActiveBooking, \* useState activeBooking
    gCall,          \* the book_room call in flight and its reply
    \* ---- one browser: the session manager ----
    localStorage,   \* the browser's localStorage: key -> stored string
    remoteSession,  \* the account whose session the auth server holds for this browser
    authUser,       \* AuthProvider: useState user
    authLoading,    \* AuthProvider: useState loading
    authError,      \* AuthProvider: useState error
    hookMounted,    \* the sidebar AdminLayout, which calls hooks/useAuth, is rendered
    hookUser,       \* hooks/useAuth: useState user
    hookLoading,    \* hooks/useAuth: useState loading
    path,           \* the router's current path
    authCall,       \* the auth call chain in flight: its caller and its position
    \* ---- maintenance requests ----
    maintenance,    \* the maintenance_requests table: a sequence, the id is the index
    mrPc,           \* admin MaintenanceRequests screen: where its async code is
    mrRequests,     \* admin MaintenanceRequests screen: useState requests
    mrLoading,      \* admin MaintenanceRequests screen: useState loading
    mrError,        \* admin MaintenanceRequests screen: useState error
    mrStats,        \* admin MaintenanceRequests screen: useState stats
    mrUpdate,       \* arguments of the handleUpdateStatus in flight
    mfPc,           \* guest MaintenanceRequest form: where its async code is
    mfLoading,      \* guest MaintenanceRequest form: useState loading
    mfError,        \* guest MaintenanceRequest form: useState error
    mfSuccess,      \* guest MaintenanceRequest form: useState success
    mfRoom,         \* guest MaintenanceRequest form: room_id of the booking found
    \* ---- guest FoodOrder screen and the food_orders table ----
    foodOrders,     \* the food_orders table: a sequence, the id is the index
    cart,           \* useState cart
    cartCall,       \* the cart handler called last and its arguments
    foPc,           \* where handleCheckout is
    foCart,         \* the cart of the render whose handleCheckout is in flight
    foRoom,         \* room_id of the booking handleCheckout has found
    foError,        \* useState error
    \* ---- admin Rooms screen ----
    rsRooms,        \* useState rooms: the room list shown, status by room id
    rsLoading,      \* useState loading
    rsError,        \* useState error
    rsStats,        \* useState stats
    rsCalls,        \* the calls of the screen that are outstanding
    \* ---- the profiles table ----
    profiles        \* the accounts whose profiles row signUp has inserted

dbVars == <<rooms, bookings, today>>
brVars == <<brPc, brRequests, brLoading, brError, brAction>>
gVars == <<gPc, gRooms, gLoading, gError, gActiveBooking, gCall>>
bookingVars == <<rooms, bookings, today, brPc, brRequests, brLoading, brError, brAction,
                 gPc, gRooms, gLoading, gError, gActiveBooking, gCall>>
authVars == <<localStorage, remoteSession, authUser, authLoading, authError,
              hookMounted, hookUser, hookLoading, path, authCall>>
mtVars == <<maintenance, mrPc, mrRequests, mrLoading, mrError, mrStats, mrUpdate,
            mfPc, mfLoading, mfError, mfSuccess, mfRoom>>
foVars == <<foodOrders, cart, cartCall, foPc, foCart, foRoom, foError>>
rsVars == <<rsRooms, rsLoading, rsError, rsStats, rsCalls>>
suVars == <<profiles>>
serviceVars == <<mtVars, foVars, rsVars, suVars>>
vars == <<rooms, bookings, today, brPc, brRequests, brLoading, brError, brAction,
          gPc, gRooms, gLoading, gError, gActiveBooking, gCall,
          localStorage, remoteSession, authUser, authLoading, authError,
          hookMounted, hookUser, hookLoading, path, authCall, serviceVars>>

BookingIds == 1..Len(bookings)

(***************************************************************************)
(* Messages shown in the screens' error banners.                           *)
(***************************************************************************)
MsgNone == ""
MsgFetchRequests == "Error fetching booking requests"
MsgApproving == "Error approving request"
MsgRejecting == "Error rejecting request"
MsgLoadRooms == "Failed to load available rooms. Please try again later."
MsgDatesMissing == "Please select check-in and check-out dates"
MsgDatesOrder == "Check-out date must be after check-in date"
MsgCapacity == "This room's capacity is ... guests"
MsgBooked == "Booking successful! Check your bookings page for details."
MsgUnavailable == "Room is not available for the selected dates"
MsgNetwork == "Failed to fetch"
MsgBookFailed == "Failed to book the room. Please try again."

NoAction == [bookingId |-> NoBooking, status |-> "none"]
NoCall == [room |-> "none", check_in |-> NoDate, check_out |-> NoDate,
           guests |-> 0, price |-> 0, reply |-> "none"]

(***************************************************************************)
(* The data store: the queries and updates the screens send to it.         *)
(***************************************************************************)
\* from('bookings').update({ status }).eq('id', bookingId): no condition on the
\* row's current status; an id that matches no row updates nothing
UpdateBookingStatus(bks, id, status) ==
    IF id \in 1..Len(bks) THEN [bks EXCEPT ![id].status = status] ELSE bks

\* from('rooms').update({ status }).eq('id', id)
UpdateRoomStatus(rms, id, status) ==
    IF id \in DOMAIN rms THEN [rms EXCEPT ![id] = status] ELSE rms

\* the status handleRequestAction writes to the room of an approved booking
ApprovedRoomStatus == "occupied"

\* from('bookings').select(...).eq('status', 'pending'): the rows of the list
PendingRequests(bks) ==
    {[id |-> i, room_id |-> bks[i].room_id] :
        i \in {j \in 1..Len(bks) : bks[j].status = "pending"}}

\* a find that does not compare the id: the first request of the list
FindFirstRequest(requests, bookingId) ==
    IF requests # {}
    THEN CHOOSE r \in requests : \A q \in requests : r.id <= q.id
    ELSE [id |-> NoBooking, room_id |-> "none"]

\* requests.find(r => r.id === bookingId)
FindRequest(requests, bookingId) ==
    IF \E r \in requests : r.id = bookingId
    THEN CHOOSE r \in requests : r.id = bookingId
    ELSE [id |-> NoBooking, room_id |-> "none"]

\* the message the catch block of handleRequestAction builds
ActionErrorMessage(status) ==
    IF status = "approved" THEN MsgApproving ELSE MsgRejecting

(***************************************************************************)
(* Admin screen BookRequests.                                              *)
(***************************************************************************)
\* fetchBookRequests, from the mount effect or at the end of an action
fetchBookRequests(a, outcome) ==
    /\ brPc[a] \in {"fetch", "refetch"}
    /\ IF outcome = "ok"
       THEN /\ brRequests' = [brRequests EXCEPT ![a] = PendingRequests(bookings)]
            /\ brError' = brError
       ELSE /\ brRequests' = brRequests
            /\ brError' = [brError EXCEPT ![a] = MsgFetchRequests]
    /\ brLoading' = [brLoading EXCEPT ![a] = FALSE]
    /\ brPc' = [brPc EXCEPT ![a] = "idle"]
    /\ brAction' = [brAction EXCEPT ![a] = NoAction]
    /\ UNCHANGED <<dbVars, gVars, authVars, serviceVars>>

\* Approve or Reject is clicked in a row of the list: handleRequestAction
\* starts and sends the booking update
handleRequestAction(a, bookingId, status) ==
    /\ brPc[a] = "idle"
    /\ ~brLoading[a]
    /\ \E r \in brRequests[a] : r.id = bookingId
    /\ brLoading' = [brLoading EXCEPT ![a] = TRUE]
    /\ brAction' = [brAction EXCEPT ![a] = [bookingId |-> bookingId, status |-> status]]
    /\ brPc' = [brPc EXCEPT ![a] = "booking"]
    /\ UNCHANGED <<dbVars, brRequests, brError, gVars, authVars, serviceVars>>

\* a handler that goes on to the room update although the booking update
\* returned an error
BookingUpdateDoneIgnoresError(a, outcome) ==
    /\ brPc[a] = "booking"
    /\ bookings' = IF outcome = "ok"
                   THEN UpdateBookingStatus(bookings, brAction[a].bookingId,
                                            brAction[a].status)
                   ELSE bookings
    /\ IF /\ brAction[a].status = "approved"
          /\ FindRequest(brRequests[a], brAction[a].bookingId).id # NoBooking
       THEN brPc' = [brPc EXCEPT ![a] = "room"]
       ELSE brPc' = [brPc EXCEPT ![a] = "refetch"]
    /\ UNCHANGED <<brError, brLoading, brAction>>
    /\ UNCHANGED <<rooms, today, brRequests, gVars, authVars, serviceVars>>

\* a handler that updates the room of the request whatever the new status of
\* the booking is
BookingUpdateDoneAlwaysRoom(a, outcome) ==
    /\ brPc[a] = "booking"
    /\ IF outcome = "ok"
       THEN /\ bookings' = UpdateBookingStatus(bookings, brAction[a].bookingId,
                                               brAction[a].status)
            /\ IF FindRequest(brRequests[a], brAction[a].bookingId).id # NoBooking
               THEN brPc' = [brPc EXCEPT ![a] = "room"]
               ELSE brPc' = [brPc EXCEPT ![a] = "refetch"]
            /\ UNCHANGED <<brError, brLoading, brAction>>
       ELSE /\ bookings' = bookings
            /\ brError' = [brError EXCEPT ![a] = ActionErrorMessage(brAction[a].status)]
            /\ brLoading' = [brLoading EXCEPT ![a] = FALSE]
            /\ brPc' = [brPc EXCEPT ![a] = "idle"]
            /\ brAction' = [brAction EXCEPT ![a] = NoAction]
    /\ UNCHANGED <<rooms, today, brRequests, gVars, authVars, serviceVars>>

\* the booking update returns
BookingUpdateDone(a, outcome) ==
    /\ brPc[a] = "booking"
    /\ IF outcome = "ok"
       THEN /\ bookings' = UpdateBookingStatus(bookings, brAction[a].bookingId,
                                               brAction[a].status)
            /\ IF /\ brAction[a].status = "approved"
                  /\ FindRequest(brRequests[a], brAction[a].bookingId).id # NoBooking
               THEN brPc' = [brPc EXCEPT ![a] = "room"]
               ELSE brPc' = [brPc EXCEPT ![a] = "refetch"]
            /\ UNCHANGED <<brError, brLoading, brAction>>
       ELSE /\ bookings' = bookings
            /\ brError' = [brError EXCEPT ![a] = ActionErrorMessage(brAction[a].status)]
            /\ brLoading' = [brLoading EXCEPT ![a] = FALSE]
            /\ brPc' = [brPc EXCEPT ![a] = "idle"]
            /\ brAction' = [brAction EXCEPT ![a] = NoAction]
    /\ UNCHANGED <<rooms, today, brRequests, gVars, authVars, serviceVars>>

\* a room update whose failure puts the booking back to pending
RoomUpdateDoneRollsBack(a, outcome) ==
    /\ brPc[a] = "room"
    /\ IF outcome = "ok"
       THEN /\ rooms' = UpdateRoomStatus(rooms,
                           FindRequest(brRequests[a], brAction[a].bookingId).room_id,
                           ApprovedRoomStatus)
            /\ bookings' = bookings
            /\ brPc' = [brPc EXCEPT ![a] = "refetch"]
            /\ UNCHANGED <<brError, brLoading, brAction>>
       ELSE /\ rooms' = rooms
            /\ bookings' = UpdateBookingStatus(bookings, brAction[a].bookingId, "pending")
            /\ brError' = [brError EXCEPT ![a] = ActionErrorMessage(brAction[a].status)]
            /\ brLoading' = [brLoading EXCEPT ![a] = FALSE]
            /\ brPc' = [brPc EXCEPT ![a] = "idle"]
            /\ brAction' = [brAction EXCEPT ![a] = NoAction]
    /\ UNCHANGED <<today, brRequests, gVars, authVars, serviceVars>>

\* the room update of an approval returns
RoomUpdateDone(a, outcome) ==
    /\ brPc[a] = "room"
    /\ IF outcome = "ok"
       THEN /\ rooms' = UpdateRoomStatus(rooms,
                           FindRequest(brRequests[a], brAction[a].bookingId).room_id,
                           ApprovedRoomStatus)
            /\ brPc' = [brPc EXCEPT ![a] = "refetch"]
            /\ UNCHANGED <<brError, brLoading, brAction>>
       ELSE /\ rooms' = rooms
            /\ brError' = [brError EXCEPT ![a] = ActionErrorMessage(brAction[a].status)]
            /\ brLoading' = [brLoading EXCEPT ![a] = FALSE]
            /\ brPc' = [brPc EXCEPT ![a] = "idle"]
            /\ brAction' = [brAction EXCEPT ![a] = NoAction]
    /\ UNCHANGED <<bookings, today, brRequests, gVars, authVars, serviceVars>>

\* the admin opens the screen again: a fresh component and its mount effect
BookRequestsMount(a) ==
    /\ brPc[a] = "idle"
    /\ brPc' = [brPc EXCEPT ![a] = "fetch"]
    /\ brRequests' = [brRequests EXCEPT ![a] = {}]
    /\ brLoading' = [brLoading EXCEPT ![a] = TRUE]
    /\ brError' = [brError EXCEPT ![a] = MsgNone]
    /\ brAction' = [brAction EXCEPT ![a] = NoAction]
    /\ UNCHANGED <<dbVars, gVars, authVars, serviceVars>>

(***************************************************************************)
(* Admin screen Rooms: the status select of a room row.  Only the update   *)
(* it sends to the data store is part of this specification.               *)
(***************************************************************************)
RoomsUpdateStatus(id, newStatus) ==
    /\ rooms[id] # newStatus
    /\ rooms' = UpdateRoomStatus(rooms, id, newStatus)
    /\ UNCHANGED <<bookings, today, brVars, gVars, authVars, serviceVars>>

\* a day passes
NextDay ==
    /\ today < MaxDay
    /\ today' = today + 1
    /\ UNCHANGED <<rooms, bookings, brVars, gVars, authVars, serviceVars>>

(***************************************************************************)
(* The remote procedure book_room.  Its body is not part of the client     *)
(* sources; it is modelled from the specification: it checks that the room *)
(* has no pending or approved booking overlapping the requested dates and  *)
(* inserts the booking, in one indivisible step.                           *)
(***************************************************************************)
Overlaps(in1, out1, in2, out2) == in1 < out2 /\ in2 < out1

RoomFree(bks, room, checkIn, checkOut) ==
    \A i \in 1..Len(bks) :
        ~ /\ bks[i].room_id = room
          /\ bks[i].status \in {"pending", "approved"}
          /\ Overlaps(bks[i].check_in, bks[i].check_out, checkIn, checkOut)

book_room(bks, room, guest, checkIn, checkOut, price) ==
    IF RoomFree(bks, room, checkIn, checkOut)
    THEN Append(bks, [room_id |-> room, guest_id |-> guest, check_in |-> checkIn,
                      check_out |-> checkOut, status |-> "pending",
                      total_price |-> price])
    ELSE bks

(***************************************************************************)
(* Guest screen BookRoom.                                                  *)
(***************************************************************************)
\* .eq('guest_id', user.id).eq('status', 'approved').gte('check_out_date', today)
MatchesActiveQuery(b, guest, day) ==
    /\ b.guest_id = guest
    /\ b.status = "approved"
    /\ b.check_out >= day

\* ... .order('check_in_date', { ascending: false }).limit(1).single():
\* the ids of the rows that can be the one returned (none: PGRST116)
ActiveBookingRows(bks, guest, day) ==
    LET matching == {i \in 1..Len(bks) : MatchesActiveQuery(bks[i], guest, day)}
    IN  {i \in matching : \A j \in matching : bks[j].check_in <= bks[i].check_in}

\* from('rooms').select('*').eq('status', 'available')
AvailableRooms(rms) == {r \in DOMAIN rms : rms[r] = "available"}

\* calculateTotalPrice: pricePerNight * nights
calculateTotalPrice(pricePerNight, checkIn, checkOut) ==
    pricePerNight * (checkOut - checkIn)

\* a catch block that ignores error.message
BookingErrorFallback(reply) == MsgBookFailed

\* error.message || 'Failed to book the room. Please try again.'
BookingErrorMessage(reply) ==
    IF reply = "unavailable" THEN MsgUnavailable ELSE MsgNetwork

\* the screen is opened: a fresh component, its mount effect starts
\* checkActiveBooking
BookRoomMount(g) ==
    /\ gPc[g] = "form"
    /\ gPc' = [gPc EXCEPT ![g] = "check"]
    /\ gRooms' = [gRooms EXCEPT ![g] = {}]
    /\ gLoading' = [gLoading EXCEPT ![g] = TRUE]
    /\ gError' = [gError EXCEPT ![g] = MsgNone]
    /\ gActiveBooking' = [gActiveBooking EXCEPT ![g] = NoBooking]
    /\ gCall' = [gCall EXCEPT ![g] = NoCall]
    /\ UNCHANGED <<dbVars, brVars, authVars, serviceVars>>

\* checkActiveBooking: the query for an approved booking returns
checkActiveBooking(g, outcome) ==
    /\ gPc[g] = "check"
    /\ \/ /\ outcome = "ok"
          /\ \E i \in ActiveBookingRows(bookings, g, today) :
                /\ gActiveBooking' = [gActiveBooking EXCEPT ![g] = i]
                /\ gLoading' = [gLoading EXCEPT ![g] = FALSE]
                /\ gPc' = [gPc EXCEPT ![g] = "form"]
                /\ gError' = gError
       \/ /\ outcome = "ok"
          /\ ActiveBookingRows(bookings, g, today) = {}
          \* no row: fetchAvailableRooms is called and clears the error
          /\ gError' = [gError EXCEPT ![g] = MsgNone]
          /\ gPc' = [gPc EXCEPT ![g] = "fetch"]
          /\ UNCHANGED <<gActiveBooking, gLoading>>
       \/ /\ outcome = "error"
          \* catch: the error is set, then fetchAvailableRooms is called as the
          \* fallback and clears it before its own await
          /\ gError' = [gError EXCEPT ![g] = MsgNone]
          /\ gPc' = [gPc EXCEPT ![g] = "fallback"]
          /\ UNCHANGED <<gActiveBooking, gLoading>>
    /\ UNCHANGED <<dbVars, brVars, gRooms, gCall, authVars, serviceVars>>

\* fetchAvailableRooms returns, called from checkActiveBooking when no row was
\* found ("fetch") or from its catch block ("fallback"), or after a successful
\* booking ("refetch")
fetchAvailableRooms(g, outcome) ==
    /\ gPc[g] \in {"fetch", "fallback", "refetch"}
    /\ gRooms' = [gRooms EXCEPT ![g] =
                    IF outcome = "ok" THEN AvailableRooms(rooms) ELSE gRooms[g]]
    /\ gError' = [gError EXCEPT ![g] =
                    IF gPc[g] = "refetch" THEN MsgBooked
                    ELSE IF outcome = "ok" THEN MsgNone ELSE MsgLoadRooms]
    /\ gLoading' = [gLoading EXCEPT ![g] = FALSE]
    /\ gPc' = [gPc EXCEPT ![g] = "form"]
    /\ gCall' = [gCall EXCEPT ![g] = NoCall]
    /\ UNCHANGED <<dbVars, brVars, gActiveBooking, authVars, serviceVars>>

\* a form check that does not compare the number of guests with the capacity
BookRoomValidationDatesOnly(room, checkIn, checkOut, numberOfGuests) ==
    IF checkIn = NoDate \/ checkOut = NoDate THEN MsgDatesMissing
    ELSE IF checkIn >= checkOut THEN MsgDatesOrder
    ELSE MsgNone

\* the message of the first check of handleBookRoom that fails, or MsgNone
BookRoomValidation(room, checkIn, checkOut, numberOfGuests) ==
    IF checkIn = NoDate \/ checkOut = NoDate THEN MsgDatesMissing
    ELSE IF checkIn >= checkOut THEN MsgDatesOrder
    ELSE IF numberOfGuests > Capacity[room] THEN MsgCapacity
    ELSE MsgNone

\* Book Now is clicked on a listed room: handleBookRoom checks the form and
\* sends the book_room call
handleBookRoom(g, room, checkIn, checkOut, numberOfGuests) ==
    /\ gPc[g] = "form"
    /\ ~gLoading[g]
    /\ gActiveBooking[g] = NoBooking
    /\ room \in gRooms[g]
    \* the button is disabled until both dates are chosen
    /\ checkIn # NoDate /\ checkOut # NoDate
    /\ LET msg == BookRoomValidation(room, checkIn, checkOut, numberOfGuests)
       IN  IF msg # MsgNone
           THEN /\ gError' = [gError EXCEPT ![g] = msg]
                /\ UNCHANGED <<gPc, gLoading, gCall>>
           ELSE /\ gLoading' = [gLoading EXCEPT ![g] = TRUE]
                /\ gError' = [gError EXCEPT ![g] = MsgNone]
                /\ gCall' = [gCall EXCEPT ![g] =
                      [room |-> room, check_in |-> checkIn, check_out |-> checkOut,
                       guests |-> numberOfGuests,
                       price |-> calculateTotalPrice(PricePerNight[room],
                                                     checkIn, checkOut),
                       reply |-> "none"]]
                /\ gPc' = [gPc EXCEPT ![g] = "rpc"]
    /\ UNCHANGED <<dbVars, brVars, gRooms, gActiveBooking, authVars, serviceVars>>

\* the data store runs book_room for the call of guest g
BookRoomExecute(g) ==
    /\ gPc[g] = "rpc"
    /\ LET c == gCall[g]
           free == RoomFree(bookings, c.room, c.check_in, c.check_out)
       IN  /\ free => Len(bookings) < MaxBookings
           /\ bookings' = book_room(bookings, c.room, g, c.check_in, c.check_out,
                                    c.price)
           /\ gCall' = [gCall EXCEPT ![g].reply =
                          IF free THEN "ok" ELSE "unavailable"]
    /\ gPc' = [gPc EXCEPT ![g] = "reply"]
    /\ UNCHANGED <<rooms, today, brVars, gRooms, gLoading, gError, gActiveBooking, authVars, serviceVars>>

\* the call of guest g does not reach the data store
BookRoomCallFails(g) ==
    /\ gPc[g] = "rpc"
    /\ gCall' = [gCall EXCEPT ![g].reply = "network"]
    /\ gPc' = [gPc EXCEPT ![g] = "reply"]
    /\ UNCHANGED <<dbVars, brVars, gRooms, gLoading, gError, gActiveBooking, authVars, serviceVars>>

\* handleBookRoom resumes with the reply of the call
handleBookRoomReply(g) ==
    /\ gPc[g] = "reply"
    /\ IF gCall[g].reply = "ok"
       THEN /\ gPc' = [gPc EXCEPT ![g] = "refetch"]
            \* fetchAvailableRooms starts and clears the error
            /\ gError' = [gError EXCEPT ![g] = MsgNone]
            /\ UNCHANGED <<gLoading, gCall>>
       ELSE /\ gError' = [gError EXCEPT ![g] = BookingErrorMessage(gCall[g].reply)]
            /\ gLoading' = [gLoading EXCEPT ![g] = FALSE]
            /\ gPc' = [gPc EXCEPT ![g] = "form"]
            /\ gCall' = [gCall EXCEPT ![g] = NoCall]
    /\ UNCHANGED <<dbVars, brVars, gRooms, gActiveBooking, authVars, serviceVars>>

(***************************************************************************)
(* The session manager: lib/supabase.ts (signIn, signOut, getUser and the  *)
(* auth state listener), the AuthProvider of contexts/AuthContext and the  *)
(* hook hooks/useAuth that the routed AdminLayout calls.                   *)
(*                                                                         *)
(* One browser.  Its auth call chains run one at a time: a chain is        *)
(* started by a mount effect or by a click, and the spinner of App or the  *)
(* guards below keep a second one from starting.                           *)
(***************************************************************************)
\* the fixed key of the persisted token
StorageKey == "hotel_auth_token"

\* the accounts of the auth server and the role of each one's profiles row
Accounts == {"admin1", "guest1"}
ProfileRole == ("admin1" :> "admin") @@ ("guest1" :> "guest")

\* useState<User | null>(null)
NoUser == [id |-> "none", role |-> "none"]
\* the auth server holds no session for this browser
NoSession == "none"
\* useState<string | null>(null)
NoError == "null"

MsgInvalidLogin == "Invalid email or password"
MsgRateLimit == "Too many login attempts. Please try again in a few minutes."
MsgProfileLoad == "Failed to load user profile. Please try again."
MsgAuthApi == "AuthApiError"
MsgSignupRateLimit == "Too many signup attempts. Please try again in a few minutes."
MsgProfileCreate == "Failed to create user profile. Please try again."

\* the accounts that sign up
SignUpAccounts == {"new1"}

\* the paths below /admin and below /guest, and every path of the model
AdminPaths == {"/admin/dashboard", "/admin/book-requests"}
GuestPaths == {"/guest/dashboard"}
Paths == {"/", "/login", "/signup"} \cup AdminPaths \cup GuestPaths

\* no auth call chain is in flight
NoAuthCall == [caller |-> "none", pc |-> "none", email |-> "none",
               password |-> FALSE, user |-> NoUser, message |-> NoError]

\* localStorage.setItem / removeItem / getItem(...) is not null
setItem(ls, key, value) ==
    [k \in DOMAIN ls \cup {key} |-> IF k = key THEN value ELSE ls[k]]
removeItem(ls, key) == [k \in DOMAIN ls \ {key} |-> ls[k]]
hasItem(ls, key) == key \in DOMAIN ls

\* the session object of account u, JSON.stringify of it and JSON.parse back
Session(u) == [user |-> u]
JSONstringify(session) == [json |-> session]
JSONparse(text) == text.json

\* a user object whose role is not read from the profiles row
UserWithDefaultRole(u) == [id |-> u, role |-> "guest"]

\* the user object signIn and getUser return: the auth user with its profile
UserWithProfile(u) == [id |-> u, role |-> ProfileRole[u]]

\* `/${user.profile.role}/dashboard`
Dashboard(role) == IF role = "admin" THEN "/admin/dashboard" ELSE "/guest/dashboard"

\* Routes whose /admin element is rendered whatever the role of the user
RouteAdminUnguarded(p, user) ==
    IF p \in {"/login", "/signup"} /\ user # NoUser THEN Dashboard(user.role)
    ELSE IF p \in GuestPaths /\ user.role # "guest" THEN "/"
    ELSE p

\* the Routes of App, rendered when loading is false: the path the router
\* settles on
Route(p, user) ==
    IF p \in {"/login", "/signup"} /\ user # NoUser THEN Dashboard(user.role)
    ELSE IF p \in AdminPaths /\ user.role # "admin" THEN "/"
    ELSE IF p \in GuestPaths /\ user.role # "guest" THEN "/"
    ELSE p

\* a ProtectedRoute that does not turn an admin away from a route without
\* requireAdmin
ProtectedRouteAdminAnywhere(loading, user, requireAdmin) ==
    IF loading THEN "spinner"
    ELSE IF user = NoUser THEN "/login"
    ELSE IF requireAdmin /\ user.role # "admin" THEN "/guest/dashboard"
    ELSE "children"

\* the component ProtectedRoute: what it renders for the loading flag and the
\* user of the AuthProvider: the spinner, a Navigate to a path or its children
ProtectedRoute(loading, user, requireAdmin) ==
    IF loading THEN "spinner"
    ELSE IF user = NoUser THEN "/login"
    ELSE IF requireAdmin /\ user.role # "admin" THEN "/guest/dashboard"
    ELSE IF ~requireAdmin /\ user.role = "admin" THEN "/admin/dashboard"
    ELSE "children"

\* App renders the routed AdminLayout, whose useAuth is hooks/useAuth
AdminLayoutRendered == ~authLoading /\ path \in AdminPaths /\ authUser.role = "admin"
\* App renders the BookRequests screen, the child route book-requests of /admin
BookRequestsRendered == ~authLoading /\ path = "/admin/book-requests"
\* App renders GuestLayout, whose useAuth is the AuthProvider's context
GuestLayoutRendered == ~authLoading /\ path \in GuestPaths /\ authUser.role = "guest"
\* App renders the Login page
LoginRendered == ~authLoading /\ path = "/login" /\ authUser = NoUser
\* App renders the Signup page
SignupRendered == ~authLoading /\ path = "/signup" /\ authUser = NoUser
\* the mount effects of what is rendered have run
EffectsRun == AdminLayoutRendered => hookMounted

\* ---- getUser ----
\* line 288: the stored token is read; without one getUser returns null
getUserGetItem ==
    /\ authCall.pc = "getItem"
    /\ authCall' = [authCall EXCEPT !.pc = IF hasItem(localStorage, StorageKey)
                                           THEN "getSession" ELSE "return_noToken",
                                    !.user = NoUser]
    /\ UNCHANGED <<localStorage, remoteSession, authUser, authLoading, authError,
                   hookMounted, hookUser, hookLoading, path, bookingVars, serviceVars>>

\* line 294: supabase.auth.getSession() returns
getUserGetSession(outcome) ==
    /\ authCall.pc = "getSession"
    /\ IF outcome = "ok"
       THEN /\ hasItem(localStorage, StorageKey)
            /\ authCall' = [authCall EXCEPT !.pc = "getUser"]
            /\ localStorage' = localStorage
       ELSE /\ localStorage' = removeItem(localStorage, StorageKey)
            /\ authCall' = [authCall EXCEPT !.pc = IF outcome = "error"
                                                   THEN "return_sessionError"
                                                   ELSE "return_noSession",
                                            !.user = NoUser]
    /\ UNCHANGED <<remoteSession, authUser, authLoading, authError,
                   hookMounted, hookUser, hookLoading, path, bookingVars, serviceVars>>

\* a user lookup whose error branch returns null without removing the token
getUserGetUserKeepsToken(outcome) ==
    /\ authCall.pc = "getUser"
    /\ IF outcome = "ok"
       THEN /\ hasItem(localStorage, StorageKey)
            /\ remoteSession = JSONparse(localStorage[StorageKey]).user
            /\ authCall' = [authCall EXCEPT !.pc = "profile",
                               !.user = [id |-> JSONparse(localStorage[StorageKey]).user,
                                         role |-> "none"]]
       ELSE authCall' = [authCall EXCEPT !.pc = "return_userError", !.user = NoUser]
    /\ UNCHANGED <<localStorage, remoteSession, authUser, authLoading, authError,
                   hookMounted, hookUser, hookLoading, path, bookingVars, serviceVars>>

\* line 307: supabase.auth.getUser() returns the user of the session's token
getUserGetUser(outcome) ==
    /\ authCall.pc = "getUser"
    /\ IF outcome = "ok"
       THEN /\ hasItem(localStorage, StorageKey)
            /\ remoteSession = JSONparse(localStorage[StorageKey]).user
            /\ authCall' = [authCall EXCEPT !.pc = "profile",
                               !.user = [id |-> JSONparse(localStorage[StorageKey]).user,
                                         role |-> "none"]]
            /\ localStorage' = localStorage
       ELSE /\ localStorage' = removeItem(localStorage, StorageKey)
            /\ authCall' = [authCall EXCEPT !.pc = "return_userError", !.user = NoUser]
    /\ UNCHANGED <<remoteSession, authUser, authLoading, authError,
                   hookMounted, hookUser, hookLoading, path, bookingVars, serviceVars>>

\* a profile query without the id filter: the row of some other account
getUserProfileUnfiltered(outcome) ==
    /\ authCall.pc = "profile"
    /\ \/ /\ outcome = "ok"
          /\ \E other \in Accounts \ {authCall.user.id} :
                authCall' = [authCall EXCEPT !.pc = "return_user",
                                !.user = [id |-> authCall.user.id,
                                          role |-> ProfileRole[other]]]
       \/ /\ outcome # "ok"
          /\ authCall' = [authCall EXCEPT !.pc = "return_catch", !.user = NoUser]
    /\ UNCHANGED <<localStorage, remoteSession, authUser, authLoading, authError,
                   hookMounted, hookUser, hookLoading, path, bookingVars, serviceVars>>

\* lines 316-339: the profile query returns.  Its error is thrown to the catch
\* block, which clears the token only for a 401 or an invalid refresh token
getUserProfile(outcome) ==
    /\ authCall.pc = "profile"
    /\ \/ /\ outcome = "ok"
          /\ authCall' = [authCall EXCEPT !.pc = "return_user",
                                          !.user = UserWithProfile(authCall.user.id)]
          /\ localStorage' = localStorage
       \/ /\ outcome = "error"
          /\ authCall' = [authCall EXCEPT !.pc = "return_catch", !.user = NoUser]
          /\ localStorage' = localStorage
       \/ /\ outcome = "unauthorized"
          /\ localStorage' = removeItem(localStorage, StorageKey)
          /\ authCall' = [authCall EXCEPT !.pc = "catchSignOut", !.user = NoUser]
    /\ UNCHANGED <<remoteSession, authUser, authLoading, authError,
                   hookMounted, hookUser, hookLoading, path, bookingVars, serviceVars>>


\* what supabase.auth.signOut() leaves at the auth server when it succeeds:
\* the session the client holds is revoked; whether the client still holds
\* one once the stored token is gone depends on the client library
RevokedSession(ls, remote) ==
    IF hasItem(ls, StorageKey) THEN {NoSession} ELSE {NoSession, remote}

\* line 337: supabase.auth.signOut() of the catch block returns, after line
\* 336 has removed the token; its result is not read
getUserCatchSignOut(outcome) ==
    /\ authCall.pc = "catchSignOut"
    /\ IF outcome = "ok"
       THEN remoteSession' \in RevokedSession(localStorage, remoteSession)
       ELSE remoteSession' = remoteSession
    /\ authCall' = [authCall EXCEPT !.pc = "return_catch", !.user = NoUser]
    /\ UNCHANGED <<localStorage, authUser, authLoading, authError,
                   hookMounted, hookUser, hookLoading, path, bookingVars, serviceVars>>

\* the places where getUser has returned to its caller
GetUserReturns == {"return_noToken", "return_sessionError", "return_noSession",
                   "return_userError", "return_user", "return_catch"}

\* AuthProvider.checkUser resumes after await getUser()
checkUser ==
    /\ authCall.caller = "checkUser"
    /\ authCall.pc \in GetUserReturns
    /\ authUser' = authCall.user
    /\ path' = IF authCall.user # NoUser
               THEN Dashboard(authCall.user.role)
               ELSE Route(path, NoUser)
    /\ authLoading' = FALSE
    /\ authCall' = NoAuthCall
    /\ UNCHANGED <<localStorage, remoteSession, authError,
                   hookMounted, hookUser, hookLoading, bookingVars, serviceVars>>

\* the mount effect of hooks/useAuth in the routed AdminLayout: checkUser
\* starts
useAuthMount ==
    /\ AdminLayoutRendered
    /\ ~hookMounted
    /\ authCall.caller = "none"
    /\ hookMounted' = TRUE
    /\ authCall' = [NoAuthCall EXCEPT !.caller = "useAuth.checkUser", !.pc = "getItem"]
    /\ UNCHANGED <<localStorage, remoteSession, authUser, authLoading, authError,
                   hookUser, hookLoading, path, bookingVars, serviceVars>>

\* hooks/useAuth checkUser resumes after await getUser()
useAuthCheckUser ==
    /\ authCall.caller = "useAuth.checkUser"
    /\ authCall.pc \in GetUserReturns
    /\ hookUser' = authCall.user
    /\ hookLoading' = FALSE
    /\ authCall' = NoAuthCall
    /\ UNCHANGED <<localStorage, remoteSession, authUser, authLoading, authError,
                   hookMounted, path, bookingVars, serviceVars>>

\* ---- signIn ----
\* the Login form is submitted: handleSignIn starts and signIn clears the
\* stored token before it sends the credentials
handleSignIn(email, password) ==
    /\ LoginRendered
    /\ authCall.caller = "none"
    /\ authLoading' = TRUE
    /\ authError' = NoError
    /\ localStorage' = removeItem(localStorage, StorageKey)
    /\ authCall' = [NoAuthCall EXCEPT !.caller = "handleSignIn",
                                      !.pc = "signInWithPassword",
                                      !.email = email, !.password = password]
    /\ UNCHANGED <<remoteSession, authUser, hookMounted, hookUser, hookLoading,
                   path, bookingVars, serviceVars>>

\* the message signIn throws for an error of signInWithPassword
SignInErrorMessage(outcome) ==
    IF outcome = "invalid" THEN MsgInvalidLogin
    ELSE IF outcome = "rate limit" THEN MsgRateLimit
    ELSE MsgAuthApi

\* line 222: signInWithPassword returns.  On success the client persists the
\* session under its storageKey and the SIGNED_IN listener stores it again
signInWithPassword(outcome) ==
    /\ authCall.pc = "signInWithPassword"
    /\ outcome = "ok" => authCall.password
    /\ outcome = "invalid" => ~authCall.password
    /\ IF outcome = "ok"
       THEN /\ remoteSession' = authCall.email
            /\ localStorage' = setItem(localStorage, StorageKey,
                                       JSONstringify(Session(authCall.email)))
            /\ authCall' = [authCall EXCEPT !.pc = "signInProfile",
                                            !.user = [id |-> authCall.email,
                                                      role |-> "none"]]
       ELSE /\ authCall' = [authCall EXCEPT !.pc = "signIn_throw",
                                            !.message = SignInErrorMessage(outcome)]
            /\ UNCHANGED <<localStorage, remoteSession>>
    /\ UNCHANGED <<authUser, authLoading, authError, hookMounted, hookUser,
                   hookLoading, path, bookingVars, serviceVars>>

\* lines 242-265: the profile query returns; on success the session is stored
\* and the user is returned with its profile
signInProfile(outcome) ==
    /\ authCall.pc = "signInProfile"
    /\ IF outcome = "ok"
       THEN /\ localStorage' = setItem(localStorage, StorageKey,
                                       JSONstringify(Session(authCall.user.id)))
            /\ authCall' = [authCall EXCEPT !.pc = "signIn_return",
                                            !.user = UserWithProfile(authCall.user.id)]
       ELSE /\ localStorage' = localStorage
            /\ authCall' = [authCall EXCEPT !.pc = "signIn_throw",
                                            !.user = NoUser,
                                            !.message = MsgProfileLoad]
    /\ UNCHANGED <<remoteSession, authUser, authLoading, authError,
                   hookMounted, hookUser, hookLoading, path, bookingVars, serviceVars>>

\* handleSignIn resumes after await signIn(): the user is set and the router
\* is sent to the dashboard of the role, or the catch block sets the error
handleSignInResume ==
    /\ authCall.caller = "handleSignIn"
    /\ authCall.pc \in {"signIn_return", "signIn_throw"}
    /\ IF authCall.pc = "signIn_return"
       THEN /\ authUser' = authCall.user
            /\ path' = Dashboard(authCall.user.role)
            /\ authError' = authError
       ELSE /\ authError' = authCall.message
            /\ UNCHANGED <<authUser, path>>
    /\ authLoading' = FALSE
    /\ authCall' = NoAuthCall
    /\ UNCHANGED <<localStorage, remoteSession, hookMounted, hookUser, hookLoading,
                   bookingVars, serviceVars>>

\* ---- signOut ----
\* Sign out is clicked in GuestLayout: the AuthProvider's handleSignOut starts
handleSignOut ==
    /\ GuestLayoutRendered
    /\ authCall.caller = "none"
    /\ authLoading' = TRUE
    /\ authError' = NoError
    /\ authCall' = [NoAuthCall EXCEPT !.caller = "handleSignOut", !.pc = "signOut"]
    /\ UNCHANGED <<localStorage, remoteSession, authUser, hookMounted, hookUser,
                   hookLoading, path, bookingVars, serviceVars>>

\* Sign out is clicked in the routed AdminLayout: signOut of hooks/useAuth
\* starts
useAuthSignOut ==
    /\ AdminLayoutRendered
    /\ hookMounted
    /\ authCall.caller = "none"
    /\ authCall' = [NoAuthCall EXCEPT !.caller = "useAuth.signOut", !.pc = "signOut"]
    /\ UNCHANGED <<localStorage, remoteSession, authUser, authLoading, authError,
                   hookMounted, hookUser, hookLoading, path, bookingVars, serviceVars>>

\* lib signOut, line 274: supabase.auth.signOut() returns.  On success the
\* session is revoked, the client and the SIGNED_OUT listener drop the stored
\* session and line 278 removes the token; an error is thrown before line 278
signOut(outcome) ==
    /\ authCall.pc = "signOut"
    /\ IF outcome = "ok"
       THEN /\ remoteSession' \in RevokedSession(localStorage, remoteSession)
            /\ localStorage' = removeItem(localStorage, StorageKey)
            /\ authCall' = [authCall EXCEPT !.pc = "signOut_return"]
       ELSE /\ authCall' = [authCall EXCEPT !.pc = "signOut_throw",
                                            !.message = MsgAuthApi]
            /\ UNCHANGED <<localStorage, remoteSession>>
    /\ UNCHANGED <<authUser, authLoading, authError, hookMounted, hookUser,
                   hookLoading, path, bookingVars, serviceVars>>

\* a handleSignOut that goes on after await signOut() whether or not it threw
handleSignOutResumeIgnoresThrow ==
    /\ authCall.caller = "handleSignOut"
    /\ authCall.pc \in {"signOut_return", "signOut_throw"}
    /\ authUser' = NoUser
    /\ path' = Route("/login", NoUser)
    /\ authError' = IF authCall.pc = "signOut_return" THEN authError
                    ELSE authCall.message
    /\ authLoading' = FALSE
    /\ authCall' = NoAuthCall
    /\ UNCHANGED <<localStorage, remoteSession, hookMounted, hookUser, hookLoading,
                   bookingVars, serviceVars>>

\* handleSignOut resumes after await signOut()
handleSignOutResume ==
    /\ authCall.caller = "handleSignOut"
    /\ authCall.pc \in {"signOut_return", "signOut_throw"}
    /\ IF authCall.pc = "signOut_return"
       THEN /\ authUser' = NoUser
            /\ path' = Route("/login", NoUser)
            /\ authError' = authError
       ELSE /\ authError' = authCall.message
            /\ UNCHANGED <<authUser, path>>
    /\ authLoading' = FALSE
    /\ authCall' = NoAuthCall
    /\ UNCHANGED <<localStorage, remoteSession, hookMounted, hookUser, hookLoading,
                   bookingVars, serviceVars>>

\* signOut of hooks/useAuth resumes after await supabaseSignOut(): only the
\* hook's own user is set to null, and an error is only logged
useAuthSignOutResume ==
    /\ authCall.caller = "useAuth.signOut"
    /\ authCall.pc \in {"signOut_return", "signOut_throw"}
    /\ hookUser' = IF authCall.pc = "signOut_return" THEN NoUser ELSE hookUser
    /\ authCall' = NoAuthCall
    /\ UNCHANGED <<localStorage, remoteSession, authUser, authLoading, authError,
                   hookMounted, hookLoading, path, bookingVars, serviceVars>>

\* ---- the browser ----
\* the page is loaded again: every component starts from its initial state,
\* localStorage is kept, and the AuthProvider's mount effect starts checkUser
Restart ==
    /\ authUser' = NoUser
    /\ authLoading' = TRUE
    /\ authError' = NoError
    /\ hookMounted' = FALSE
    /\ hookUser' = NoUser
    /\ hookLoading' = TRUE
    /\ authCall' = [NoAuthCall EXCEPT !.caller = "checkUser", !.pc = "getItem"]
    /\ UNCHANGED <<localStorage, remoteSession, path, bookingVars, serviceVars>>

\* a link is followed or a path is entered while the routes are rendered
Navigate(p) ==
    /\ ~authLoading
    /\ authCall.caller = "none"
    /\ EffectsRun
    /\ p # path
    /\ path' = Route(p, authUser)
    /\ path' # path
    /\ hookMounted' = (hookMounted /\ path' \in AdminPaths)
    /\ hookUser' = IF hookMounted' THEN hookUser ELSE NoUser
    /\ hookLoading' = IF hookMounted' THEN hookLoading ELSE TRUE
    /\ UNCHANGED <<localStorage, remoteSession, authUser, authLoading, authError,
                   authCall, bookingVars, serviceVars>>

\* ---- signUp ----
\* the Signup form is submitted: signUp starts and sends the sign-up call.
\* The page that calls signUp is not part of the sources; the call chain ends
\* where signUp returns or throws
signUpStart(email) ==
    /\ SignupRendered
    /\ authCall.caller = "none"
    /\ authCall' = [NoAuthCall EXCEPT !.caller = "signUp", !.pc = "signUp",
                                      !.email = email]
    /\ UNCHANGED <<localStorage, remoteSession, authUser, authLoading, authError,
                   hookMounted, hookUser, hookLoading, path, profiles,
                   bookingVars, mtVars, foVars, rsVars>>

\* the message signUp throws for an error of supabase.auth.signUp
SignUpErrorMessage(outcome) ==
    IF outcome = "rate limit" THEN MsgSignupRateLimit ELSE MsgAuthApi

\* line 161: supabase.auth.signUp returns.  The auth server creates the user
\* and, depending on its settings, either opens a session at once, which the
\* client persists under its storageKey and the SIGNED_IN listener stores
\* again, or waits for the email to be confirmed and opens none
signUpAuth(outcome) ==
    /\ authCall.pc = "signUp"
    /\ IF outcome \in {"session", "confirm"}
       THEN /\ authCall' = [authCall EXCEPT !.pc = "signUpProfile"]
            /\ IF outcome = "session"
               THEN /\ remoteSession' = authCall.email
                    /\ localStorage' = setItem(localStorage, StorageKey,
                                               JSONstringify(Session(authCall.email)))
               ELSE UNCHANGED <<localStorage, remoteSession>>
       ELSE /\ authCall' = [authCall EXCEPT !.pc = "signUp_throw",
                                            !.message = SignUpErrorMessage(outcome)]
            /\ UNCHANGED <<localStorage, remoteSession>>
    /\ UNCHANGED <<authUser, authLoading, authError, hookMounted, hookUser,
                   hookLoading, path, profiles, bookingVars, mtVars, foVars, rsVars>>

\* line 185: the insert into profiles returns; a second row for the same id
\* is refused
signUpProfile(outcome) ==
    /\ authCall.pc = "signUpProfile"
    /\ outcome = "ok" => authCall.email \notin profiles
    /\ IF outcome = "ok"
       THEN /\ profiles' = profiles \cup {authCall.email}
            /\ authCall' = [authCall EXCEPT !.pc = "signUp_return"]
       ELSE /\ profiles' = profiles
            /\ authCall' = [authCall EXCEPT !.pc = "signUpSignOut"]
    /\ UNCHANGED <<localStorage, remoteSession, authUser, authLoading, authError,
                   hookMounted, hookUser, hookLoading, path,
                   bookingVars, mtVars, foVars, rsVars>>

\* line 200: supabase.auth.signOut() of the clean-up returns; its result is
\* not read, and line 201 throws.  On success the session is revoked and the
\* client and the SIGNED_OUT listener drop the stored session
signUpSignOut(outcome) ==
    /\ authCall.pc = "signUpSignOut"
    /\ IF outcome = "ok"
       THEN /\ remoteSession' \in RevokedSession(localStorage, remoteSession)
            /\ localStorage' = removeItem(localStorage, StorageKey)
       ELSE UNCHANGED <<localStorage, remoteSession>>
    /\ authCall' = [authCall EXCEPT !.pc = "signUp_throw",
                                    !.message = MsgProfileCreate]
    /\ UNCHANGED <<authUser, authLoading, authError, hookMounted, hookUser,
                   hookLoading, path, profiles, bookingVars, mtVars, foVars, rsVars>>

\* signUp has returned or thrown to the page that called it
signUpEnds ==
    /\ authCall.caller = "signUp"
    /\ authCall.pc \in {"signUp_return", "signUp_throw"}
    /\ authCall' = NoAuthCall
    /\ UNCHANGED <<localStorage, remoteSession, authUser, authLoading, authError,
                   hookMounted, hookUser, hookLoading, path, profiles,
                   bookingVars, mtVars, foVars, rsVars>>

InitAuth ==
    /\ localStorage = << >>
    /\ remoteSession = NoSession
    /\ authUser = NoUser
    /\ authLoading = TRUE
    /\ authError = NoError
    /\ hookMounted = FALSE
    /\ hookUser = NoUser
    /\ hookLoading = TRUE
    /\ path = "/"
    /\ authCall = [NoAuthCall EXCEPT !.caller = "checkUser", !.pc = "getItem"]

(***************************************************************************)
(* Maintenance requests: the guest's MaintenanceRequest form and the       *)
(* admin's MaintenanceRequests screen.                                     *)
(***************************************************************************)
\* the guest whose form is modelled
FormGuest == "g1"

\* the options of the status select of a row of the admin screen
MaintenanceStatusOptions == {"pending", "in_progress", "completed", "cancelled"}

MsgFetchBooking == "Failed to fetch booking information"
MsgNoApprovedBooking ==
    "No active booking found. Please make sure you have an approved booking."
MsgCreateRequest == "Failed to create maintenance request"
MsgFetchMaintenance == "Failed to fetch maintenance requests"
MsgUpdateMaintenance == "Failed to update maintenance request status"

NoUpdate == [id |-> 0, status |-> "none"]
NoRoom == "none"

mtRest == <<bookingVars, authVars, foVars, rsVars, suVars>>

\* from('bookings').select('room_id').eq('guest_id', ...).eq('status',
\* 'approved').order('created_at', { ascending: false }).limit(1)
LatestApprovedBooking(bks, guest) ==
    LET ids == {i \in 1..Len(bks) : bks[i].guest_id = guest /\ bks[i].status = "approved"}
    IN  IF ids = {} THEN {} ELSE {CHOOSE i \in ids : \A j \in ids : j <= i}

\* from('maintenance_requests').update({ status: newStatus }).eq('id', id)
UpdateMaintenanceStatus(mt, id, status) ==
    IF id \in 1..Len(mt) THEN [mt EXCEPT ![id].status = status] ELSE mt

\* the form is submitted: handleSubmit starts and sends the bookings query
handleSubmit ==
    /\ mfPc = "idle"
    /\ ~mfLoading
    /\ mfLoading' = TRUE
    /\ mfError' = MsgNone
    /\ mfSuccess' = FALSE
    /\ mfPc' = "booking"
    /\ UNCHANGED <<maintenance, mrPc, mrRequests, mrLoading, mrError, mrStats, mrUpdate,
                   mfRoom, mtRest>>

\* the bookings query of handleSubmit returns: without an approved booking
\* the handler ends in its catch block
handleSubmitBooking(outcome) ==
    /\ mfPc = "booking"
    /\ IF outcome = "ok" /\ LatestApprovedBooking(bookings, FormGuest) # {}
       THEN /\ mfRoom' = bookings[CHOOSE i \in LatestApprovedBooking(bookings, FormGuest) :
                                      TRUE].room_id
            /\ mfPc' = "insert"
            /\ UNCHANGED <<mfLoading, mfError>>
       ELSE /\ mfError' = IF outcome = "ok" THEN MsgNoApprovedBooking ELSE MsgFetchBooking
            /\ mfLoading' = FALSE
            /\ mfPc' = "idle"
            /\ mfRoom' = mfRoom
    /\ UNCHANGED <<maintenance, mrPc, mrRequests, mrLoading, mrError, mrStats, mrUpdate,
                   mfSuccess, mtRest>>

\* an insert that creates the request with a status of its own
handleSubmitInsertOpen(outcome) ==
    /\ mfPc = "insert"
    /\ Len(maintenance) < MaxRequests
    /\ IF outcome = "ok"
       THEN /\ maintenance' = Append(maintenance,
                                     [room_id |-> mfRoom, guest_id |-> FormGuest,
                                      status |-> "open"])
            /\ mfSuccess' = TRUE
            /\ mfError' = mfError
       ELSE /\ mfError' = MsgCreateRequest
            /\ UNCHANGED <<maintenance, mfSuccess>>
    /\ mfLoading' = FALSE
    /\ mfPc' = "idle"
    /\ mfRoom' = NoRoom
    /\ UNCHANGED <<mrPc, mrRequests, mrLoading, mrError, mrStats, mrUpdate, mtRest>>

\* the insert of handleSubmit returns
handleSubmitInsert(outcome) ==
    /\ mfPc = "insert"
    /\ Len(maintenance) < MaxRequests
    /\ IF outcome = "ok"
       THEN /\ maintenance' = Append(maintenance,
                                     [room_id |-> mfRoom, guest_id |-> FormGuest,
                                      status |-> "pending"])
            /\ mfSuccess' = TRUE
            /\ mfError' = mfError
       ELSE /\ mfError' = MsgCreateRequest
            /\ UNCHANGED <<maintenance, mfSuccess>>
    /\ mfLoading' = FALSE
    /\ mfPc' = "idle"
    /\ mfRoom' = NoRoom
    /\ UNCHANGED <<mrPc, mrRequests, mrLoading, mrError, mrStats, mrUpdate, mtRest>>

\* useState stats: the initial value
NoMaintenanceStats ==
    [total |-> 0, pending |-> 0, in_progress |-> 0, completed |-> 0, cancelled |-> 0]

\* data.filter(req => req.status === status).length
CountRequests(data, status) ==
    Cardinality({i \in 1..Len(data) : data[i].status = status})

\* the value fetchMaintenanceRequests passes to setStats
MaintenanceStats(data) ==
    [total |-> Len(data),
     pending |-> CountRequests(data, "pending"),
     in_progress |-> CountRequests(data, "in_progress"),
     completed |-> CountRequests(data, "completed"),
     cancelled |-> CountRequests(data, "cancelled")]

\* fetchMaintenanceRequests, from the mount effect or at the end of an update
fetchMaintenanceRequests(outcome) ==
    /\ mrPc \in {"fetch", "refetch"}
    /\ IF outcome = "ok"
       THEN /\ mrRequests' = maintenance
            /\ mrStats' = MaintenanceStats(maintenance)
            /\ mrError' = mrError
       ELSE /\ mrRequests' = <<>>
            /\ mrStats' = mrStats
            /\ mrError' = MsgFetchMaintenance
    /\ mrLoading' = FALSE
    /\ mrPc' = "idle"
    /\ mrUpdate' = NoUpdate
    /\ UNCHANGED <<maintenance, mfPc, mfLoading, mfError, mfSuccess, mfRoom, mtRest>>

\* another option is chosen in the status select of a row:
\* handleUpdateStatus starts and sends the update
MaintenanceUpdateStatus(id, newStatus) ==
    /\ mrPc = "idle"
    /\ ~mrLoading
    /\ id \in 1..Len(mrRequests)
    /\ newStatus \in MaintenanceStatusOptions
    /\ newStatus # mrRequests[id].status
    /\ mrLoading' = TRUE
    /\ mrError' = MsgNone
    /\ mrUpdate' = [id |-> id, status |-> newStatus]
    /\ mrPc' = "update"
    /\ UNCHANGED <<maintenance, mrRequests, mrStats, mfPc, mfLoading, mfError,
                   mfSuccess, mfRoom, mtRest>>

\* the update of handleUpdateStatus returns
MaintenanceUpdateDone(outcome) ==
    /\ mrPc = "update"
    /\ IF outcome = "ok"
       THEN /\ maintenance' = UpdateMaintenanceStatus(maintenance, mrUpdate.id,
                                                      mrUpdate.status)
            /\ mrPc' = "refetch"
            /\ UNCHANGED <<mrError, mrLoading, mrUpdate>>
       ELSE /\ maintenance' = maintenance
            /\ mrError' = MsgUpdateMaintenance
            /\ mrLoading' = FALSE
            /\ mrPc' = "idle"
            /\ mrUpdate' = NoUpdate
    /\ UNCHANGED <<mrRequests, mrStats, mfPc, mfLoading, mfError, mfSuccess, mfRoom,
                   mtRest>>

\* the admin opens the screen again: a fresh component and its mount effect
MaintenanceRequestsMount ==
    /\ mrPc = "idle"
    /\ mrPc' = "fetch"
    /\ mrRequests' = <<>>
    /\ mrStats' = NoMaintenanceStats
    /\ mrLoading' = TRUE
    /\ mrError' = MsgNone
    /\ mrUpdate' = NoUpdate
    /\ UNCHANGED <<maintenance, mfPc, mfLoading, mfError, mfSuccess, mfRoom, mtRest>>

InitMaintenance ==
    /\ maintenance = <<>>
    /\ mrPc = "fetch"
    /\ mrRequests = <<>>
    /\ mrStats = NoMaintenanceStats
    /\ mrLoading = TRUE
    /\ mrError = MsgNone
    /\ mrUpdate = NoUpdate
    /\ mfPc = "idle"
    /\ mfLoading = FALSE
    /\ mfError = MsgNone
    /\ mfSuccess = FALSE
    /\ mfRoom = NoRoom

(***************************************************************************)
(* Guest screen FoodOrder: the cart and the checkout.                      *)
(***************************************************************************)
\* the rows of menu_items the screen has fetched: id -> price
MenuItemIds == {1, 2, 3}
MenuPrice == (1 :> 5) @@ (2 :> 12) @@ (3 :> 7)
\* the texts typed into the special instructions of a cart item
Instructions == {"", "no onions"}

MsgCheckBooking == "Could not check your booking status"
MsgPlaceOrder == "Failed to place order. Please try again."

\* no cart handler has been called since the screen was mounted
NoCartCall == [op |-> "none", id |-> 0, quantity |-> 0]

foRest == <<bookingVars, authVars, mtVars, rsVars, suVars>>

\* prevCart.find(cartItem => cartItem.id === item.id) finds an item
InCart(c, itemId) == \E k \in 1..Len(c) : c[k].id = itemId

\* the quantity of the cart item itemId
QuantityOf(c, itemId) == c[CHOOSE k \in 1..Len(c) : c[k].id = itemId].quantity

\* { ...item, quantity: 1 }: the new cart item has no special_instructions
NewCartItem(item) ==
    [id |-> item, price |-> MenuPrice[item], quantity |-> 1,
     special_instructions |-> "undefined"]

\* an addToCart that does not look for the item in the cart
addToCartAlwaysAppends(prevCart, item) == Append(prevCart, NewCartItem(item))

\* the updater of addToCart
addToCart(prevCart, item) ==
    IF InCart(prevCart, item)
    THEN [k \in 1..Len(prevCart) |->
             IF prevCart[k].id = item
             THEN [prevCart[k] EXCEPT !.quantity = prevCart[k].quantity + 1]
             ELSE prevCart[k]]
    ELSE Append(prevCart, NewCartItem(item))

\* prevCart.filter(item => item.id !== itemId)
RECURSIVE FilterOut(_, _)
FilterOut(c, itemId) ==
    IF c = <<>> THEN <<>>
    ELSE IF Head(c).id # itemId
         THEN <<Head(c)>> \o FilterOut(Tail(c), itemId)
         ELSE FilterOut(Tail(c), itemId)

\* an updater that maps the new quantity into the item whatever it is
updateCartItemQuantityKeepsZero(prevCart, itemId, quantity) ==
    [k \in 1..Len(prevCart) |->
        IF prevCart[k].id = itemId
        THEN [prevCart[k] EXCEPT !.quantity = quantity]
        ELSE prevCart[k]]

\* the updater of updateCartItemQuantity
updateCartItemQuantity(prevCart, itemId, quantity) ==
    IF quantity = 0
    THEN FilterOut(prevCart, itemId)
    ELSE [k \in 1..Len(prevCart) |->
             IF prevCart[k].id = itemId
             THEN [prevCart[k] EXCEPT !.quantity = quantity]
             ELSE prevCart[k]]

\* the updater of updateSpecialInstructions
updateSpecialInstructions(prevCart, itemId, instructions) ==
    [k \in 1..Len(prevCart) |->
        IF prevCart[k].id = itemId
        THEN [prevCart[k] EXCEPT !.special_instructions = instructions]
        ELSE prevCart[k]]

\* cart.reduce((total, item) => total + (item.price * item.quantity), 0)
RECURSIVE Reduce(_, _)
Reduce(c, total) ==
    IF c = <<>> THEN total
    ELSE Reduce(Tail(c), total + (Head(c).price * Head(c).quantity))

calculateTotal(c) == Reduce(c, 0)

\* Add to Cart is clicked on a menu item
AddToCartClick(item) ==
    /\ InCart(cart, item) => QuantityOf(cart, item) < MaxQuantity
    /\ cart' = addToCart(cart, item)
    /\ cartCall' = [op |-> "add", id |-> item, quantity |-> 1]
    /\ UNCHANGED <<foPc, foCart, foRoom, foError, foodOrders, foRest>>

\* the - or the + of a cart item is clicked:
\* updateCartItemQuantity(item.id, item.quantity - 1) or (..., item.quantity + 1)
QuantityClick(itemId, delta) ==
    /\ InCart(cart, itemId)
    /\ QuantityOf(cart, itemId) + delta <= MaxQuantity
    /\ cart' = updateCartItemQuantity(cart, itemId, QuantityOf(cart, itemId) + delta)
    /\ cartCall' = [op |-> "quantity", id |-> itemId,
                    quantity |-> QuantityOf(cart, itemId) + delta]
    /\ UNCHANGED <<foPc, foCart, foRoom, foError, foodOrders, foRest>>

\* the special instructions of a cart item are typed in
SpecialInstructionsInput(itemId, instructions) ==
    /\ InCart(cart, itemId)
    /\ cart' = updateSpecialInstructions(cart, itemId, instructions)
    /\ cartCall' = [op |-> "instructions", id |-> itemId, quantity |-> 0]
    /\ UNCHANGED <<foPc, foCart, foRoom, foError, foodOrders, foRest>>

\* Place Order is clicked, which the screen shows while the cart is not
\* empty: handleCheckout starts, with the cart of this render, and sends the
\* bookings query
handleCheckout ==
    /\ foPc = "idle"
    /\ cart # <<>>
    /\ foCart' = cart
    /\ foPc' = "booking"
    /\ UNCHANGED <<cart, cartCall, foRoom, foError, foodOrders, foRest>>

\* the bookings query of handleCheckout returns; .single() makes an empty
\* result an error
handleCheckoutBooking(outcome) ==
    /\ foPc = "booking"
    /\ IF outcome = "ok" /\ ActiveBookingRows(bookings, FormGuest, today) # {}
       THEN /\ \E b \in ActiveBookingRows(bookings, FormGuest, today) :
                   foRoom' = bookings[b].room_id
            /\ foPc' = "insert"
            /\ UNCHANGED <<foError, foCart>>
       ELSE /\ foError' = MsgCheckBooking
            /\ foPc' = "idle"
            /\ foCart' = <<>>
            /\ foRoom' = foRoom
    /\ UNCHANGED <<cart, cartCall, foodOrders, foRest>>

\* an insert step that empties the cart whether the insert succeeded or not
handleCheckoutInsertAlwaysClears(outcome) ==
    /\ foPc = "insert"
    /\ Len(foodOrders) < MaxOrders
    /\ IF outcome = "ok"
       THEN /\ foodOrders' = Append(foodOrders,
                                    [guest_id |-> FormGuest, room_id |-> foRoom,
                                     items |-> [k \in 1..Len(foCart) |->
                                                   [item_id |-> foCart[k].id,
                                                    quantity |-> foCart[k].quantity,
                                                    special_instructions |->
                                                        foCart[k].special_instructions]],
                                     total_amount |-> calculateTotal(foCart),
                                     status |-> "pending"])
            /\ foError' = MsgNone
       ELSE /\ foError' = MsgPlaceOrder
            /\ foodOrders' = foodOrders
    /\ cart' = <<>>
    /\ cartCall' = NoCartCall
    /\ foPc' = "idle"
    /\ foCart' = <<>>
    /\ foRoom' = NoRoom
    /\ UNCHANGED foRest

\* the insert of handleCheckout returns: on success the cart is emptied and
\* the router leaves for /guest/orders, so that the next FoodOrder screen is
\* a fresh component
handleCheckoutInsert(outcome) ==
    /\ foPc = "insert"
    /\ Len(foodOrders) < MaxOrders
    /\ IF outcome = "ok"
       THEN /\ foodOrders' = Append(foodOrders,
                                    [guest_id |-> FormGuest, room_id |-> foRoom,
                                     items |-> [k \in 1..Len(foCart) |->
                                                   [item_id |-> foCart[k].id,
                                                    quantity |-> foCart[k].quantity,
                                                    special_instructions |->
                                                        foCart[k].special_instructions]],
                                     total_amount |-> calculateTotal(foCart),
                                     status |-> "pending"])
            /\ cart' = <<>>
            /\ cartCall' = NoCartCall
            /\ foError' = MsgNone
       ELSE /\ foError' = MsgPlaceOrder
            /\ UNCHANGED <<foodOrders, cart, cartCall>>
    /\ foPc' = "idle"
    /\ foCart' = <<>>
    /\ foRoom' = NoRoom
    /\ UNCHANGED foRest

InitFoodOrder ==
    /\ cart = <<>>
    /\ cartCall = NoCartCall
    /\ foPc = "idle"
    /\ foCart = <<>>
    /\ foRoom = NoRoom
    /\ foError = MsgNone
    /\ foodOrders = <<>>

(***************************************************************************)
(* Admin screen Rooms, in full: the room list it shows, its status         *)
(* updates and its fetches.  fetchRooms is called without await, so that   *)
(* several calls of the screen are outstanding at a time; each is followed *)
(* from await to await, and a select is answered by the data store before  *)
(* its response reaches the screen.                                        *)
(***************************************************************************)
MsgAuthentication == "Authentication error"
MsgNoSession == "No active session"
MsgFetchRooms == "Failed to fetch rooms"
MsgUpdateRoom == "Failed to update room status"

\* setRooms([])
NoRooms == << >>

rsRest == <<bookings, today, brVars, gVars, authVars, mtVars, foVars, suVars>>

\* a call of the screen that is outstanding
FetchCall == [pc |-> "getSession", id |-> "none", status |-> "none", data |-> NoRooms]
UpdateCall(id, newStatus) ==
    [pc |-> "update", id |-> id, status |-> newStatus, data |-> NoRooms]

\* the outstanding calls without the k-th, which has completed
RemoveAt(calls, k) ==
    [j \in 1..(Len(calls) - 1) |-> IF j < k THEN calls[j] ELSE calls[j + 1]]

\* from('rooms').select('*'): the rows the data store returns
SelectRooms(rms) == rms

\* useState stats: the initial value
NoRoomStats == [total |-> 0, available |-> 0, occupied |-> 0, maintenance |-> 0]

\* data.filter(room => room.status === status).length
CountRooms(data, status) == Cardinality({r \in DOMAIN data : data[r] = status})

\* the value fetchRooms passes to setStats
RoomStats(data) ==
    [total |-> Cardinality(DOMAIN data),
     available |-> CountRooms(data, "available"),
     occupied |-> CountRooms(data, "occupied"),
     maintenance |-> CountRooms(data, "maintenance")]

\* another option is chosen in the status select of a row, which is shown
\* while loading is false: handleUpdateStatus starts and sends the update
RoomsHandleUpdateStatus(id, newStatus) ==
    /\ ~rsLoading
    /\ id \in DOMAIN rsRooms
    /\ newStatus # rsRooms[id]
    /\ Len(rsCalls) < MaxCalls
    /\ rsCalls' = Append(rsCalls, UpdateCall(id, newStatus))
    /\ UNCHANGED <<rooms, rsRooms, rsLoading, rsError, rsStats, rsRest>>

\* the update of handleUpdateStatus returns: on success fetchRooms is called
\* and runs up to its first await
RoomsUpdateReturns(k, outcome) ==
    /\ k \in 1..Len(rsCalls)
    /\ rsCalls[k].pc = "update"
    /\ IF outcome = "ok"
       THEN /\ rooms' = UpdateRoomStatus(rooms, rsCalls[k].id, rsCalls[k].status)
            /\ rsLoading' = TRUE
            /\ rsError' = MsgNone
            /\ rsCalls' = [rsCalls EXCEPT ![k] = FetchCall]
       ELSE /\ rooms' = rooms
            /\ rsLoading' = rsLoading
            /\ rsError' = MsgUpdateRoom
            /\ rsCalls' = RemoveAt(rsCalls, k)
    /\ UNCHANGED <<rsRooms, rsStats, rsRest>>

\* fetchRooms, line 61: getSession returns; with a session the select is sent
fetchRoomsGetSession(k, outcome) ==
    /\ k \in 1..Len(rsCalls)
    /\ rsCalls[k].pc = "getSession"
    /\ IF outcome = "ok"
       THEN /\ rsCalls' = [rsCalls EXCEPT ![k].pc = "select"]
            /\ UNCHANGED <<rsRooms, rsLoading, rsError>>
       ELSE /\ rsError' = IF outcome = "error" THEN MsgAuthentication ELSE MsgNoSession
            /\ rsRooms' = NoRooms
            /\ rsLoading' = FALSE
            /\ rsCalls' = RemoveAt(rsCalls, k)
    /\ UNCHANGED <<rooms, rsStats, rsRest>>

\* the data store answers the select of a fetchRooms
fetchRoomsSelect(k) ==
    /\ k \in 1..Len(rsCalls)
    /\ rsCalls[k].pc = "select"
    /\ rsCalls' = [rsCalls EXCEPT ![k].pc = "response", ![k].data = SelectRooms(rooms)]
    /\ UNCHANGED <<rooms, rsRooms, rsLoading, rsError, rsStats, rsRest>>

\* fetchRooms, lines 71-91: the response of the select reaches the screen
fetchRoomsReturns(k, outcome) ==
    /\ k \in 1..Len(rsCalls)
    /\ rsCalls[k].pc = "response"
    /\ IF outcome = "ok"
       THEN /\ rsRooms' = rsCalls[k].data
            /\ rsStats' = RoomStats(rsCalls[k].data)
            /\ rsError' = rsError
       ELSE /\ rsRooms' = NoRooms
            /\ rsStats' = rsStats
            /\ rsError' = MsgFetchRooms
    /\ rsLoading' = FALSE
    /\ rsCalls' = RemoveAt(rsCalls, k)
    /\ UNCHANGED <<rooms, rsRest>>

\* the mount effect has called fetchRooms
InitRooms ==
    /\ rsRooms = NoRooms
    /\ rsStats = NoRoomStats
    /\ rsLoading = TRUE
    /\ rsError = MsgNone
    /\ rsCalls = <<FetchCall>>

(***************************************************************************)
(* The specification of the booking life cycle.                            *)
(***************************************************************************)
Init ==
    /\ rooms = [r \in RoomIds |-> "available"]
    /\ bookings = <<>>
    /\ today = 1
    /\ brPc = [a \in AdminSessions |-> "fetch"]
    /\ brRequests = [a \in AdminSessions |-> {}]
    /\ brLoading = [a \in AdminSessions |-> TRUE]
    /\ brError = [a \in AdminSessions |-> MsgNone]
    /\ brAction = [a \in AdminSessions |-> NoAction]
    /\ gPc = [g \in GuestIds |-> "check"]
    /\ gRooms = [g \in GuestIds |-> {}]
    /\ gLoading = [g \in GuestIds |-> TRUE]
    /\ gError = [g \in GuestIds |-> MsgNone]
    /\ gActiveBooking = [g \in GuestIds |-> NoBooking]
    /\ gCall = [g \in GuestIds |-> NoCall]
    /\ InitAuth
    /\ InitMaintenance
    /\ InitFoodOrder
    /\ InitRooms
    /\ profiles = {}

(***************************************************************************)
(* SpecAdmin: one admin session on the BookRequests screen, in full.  The  *)
(* rest of the system is seen through the calls it sends to the data       *)
(* store: the guests' book_room calls and the Rooms screen's status        *)
(* updates.                                                                *)
(***************************************************************************)
\* supabase.rpc('book_room', ...) of a guest's BookRoom screen
GuestBookRoomCall(g, room, checkIn, checkOut) ==
    /\ checkIn < checkOut
    /\ Len(bookings) < MaxBookings
    /\ RoomFree(bookings, room, checkIn, checkOut)
    /\ bookings' = book_room(bookings, room, g, checkIn, checkOut,
                             calculateTotalPrice(PricePerNight[room], checkIn, checkOut))
    /\ UNCHANGED <<rooms, today, brVars, gVars, authVars, serviceVars>>

NextAdmin ==
    \/ \E a \in AdminSessions, o \in CallOutcome : fetchBookRequests(a, o)
    \/ \E a \in AdminSessions, b \in 1..MaxBookings, s \in {"approved", "rejected"} :
          handleRequestAction(a, b, s)
    \/ \E a \in AdminSessions, o \in CallOutcome : BookingUpdateDone(a, o)
    \/ \E a \in AdminSessions, o \in CallOutcome : RoomUpdateDone(a, o)
    \/ \E a \in AdminSessions : BookRequestsMount(a)
    \/ \E r \in RoomIds, s \in RoomStatus : RoomsUpdateStatus(r, s)
    \/ \E r \in RoomIds : GuestBookRoomCall("g1", r, today, today + 1)

SpecAdmin == Init /\ [][NextAdmin]_vars

(***************************************************************************)
(* SpecAdminDays: SpecAdmin over several days, with the booking updates of *)
(* the other admin sessions, whose request lists may be stale.             *)
(***************************************************************************)
\* from('bookings').update({ status }) of an admin session that is not
\* modelled in full: the booking was pending when that session fetched its list
AdminBookingUpdate(bookingId, status) ==
    /\ bookingId \in 1..Len(bookings)
    /\ bookings[bookingId].status # status
    /\ bookings' = UpdateBookingStatus(bookings, bookingId, status)
    /\ UNCHANGED <<rooms, today, brVars, gVars, authVars, serviceVars>>

NextAdminDays ==
    \/ \E a \in AdminSessions, o \in CallOutcome : fetchBookRequests(a, o)
    \/ \E a \in AdminSessions, b \in 1..MaxBookings, s \in {"approved", "rejected"} :
          handleRequestAction(a, b, s)
    \/ \E a \in AdminSessions, o \in CallOutcome : BookingUpdateDone(a, o)
    \/ \E a \in AdminSessions, o \in CallOutcome : RoomUpdateDone(a, o)
    \/ \E a \in AdminSessions : BookRequestsMount(a)
    \/ \E r \in RoomIds, s \in RoomStatus : RoomsUpdateStatus(r, s)
    \/ \E r \in RoomIds : GuestBookRoomCall("g1", r, today, today + 1)
    \/ \E b \in 1..MaxBookings, s \in {"approved", "rejected"} :
          AdminBookingUpdate(b, s)
    \/ NextDay

SpecAdminDays == Init /\ [][NextAdminDays]_vars

(***************************************************************************)
(* SpecGuest: two guests on the BookRoom screen, in full, booking room 101.*)
(***************************************************************************)
NextGuest ==
    \/ \E g \in GuestIds : BookRoomMount(g)
    \/ \E g \in GuestIds, o \in CallOutcome : checkActiveBooking(g, o)
    \/ \E g \in GuestIds, o \in CallOutcome : fetchAvailableRooms(g, o)
    \/ \E g \in GuestIds, i \in Days, o \in Days, n \in 1..MaxGuests :
          handleBookRoom(g, "101", i, o, n)
    \/ \E g \in GuestIds : BookRoomExecute(g)
    \/ \E g \in GuestIds : BookRoomCallFails(g)
    \/ \E g \in GuestIds : handleBookRoomReply(g)

SpecGuest == Init /\ [][NextGuest]_vars

(***************************************************************************)
(* SpecGuestAdmin: SpecGuest with the booking updates of the admin         *)
(* sessions, which approve or reject the guests' bookings.                 *)
(***************************************************************************)
NextGuestAdmin ==
    \/ \E g \in GuestIds : BookRoomMount(g)
    \/ \E g \in GuestIds, o \in CallOutcome : checkActiveBooking(g, o)
    \/ \E g \in GuestIds, o \in CallOutcome : fetchAvailableRooms(g, o)
    \/ \E g \in GuestIds, i \in Days, o \in Days, n \in 1..MaxGuests :
          handleBookRoom(g, "101", i, o, n)
    \/ \E g \in GuestIds : BookRoomExecute(g)
    \/ \E g \in GuestIds : BookRoomCallFails(g)
    \/ \E g \in GuestIds : handleBookRoomReply(g)
    \/ \E b \in 1..MaxBookings, s \in {"approved", "rejected"} :
          AdminBookingUpdate(b, s)

SpecGuestAdmin == Init /\ [][NextGuestAdmin]_vars

(***************************************************************************)
(* SpecAuth: the session manager of one browser against the auth server.   *)
(***************************************************************************)
NextAuth ==
    \/ getUserGetItem
    \/ \E o \in {"ok", "error", "none"} : getUserGetSession(o)
    \/ \E o \in CallOutcome : getUserGetUser(o)
    \/ \E o \in {"ok", "error", "unauthorized"} : getUserProfile(o)
    \/ \E o \in CallOutcome : getUserCatchSignOut(o)
    \/ checkUser
    \/ useAuthMount
    \/ useAuthCheckUser
    \/ \E e \in Accounts, pw \in BOOLEAN : handleSignIn(e, pw)
    \/ \E o \in {"ok", "invalid", "rate limit", "error"} : signInWithPassword(o)
    \/ \E o \in CallOutcome : signInProfile(o)
    \/ handleSignInResume
    \/ handleSignOut
    \/ useAuthSignOut
    \/ \E o \in CallOutcome : signOut(o)
    \/ handleSignOutResume
    \/ useAuthSignOutResume
    \/ Restart
    \/ \E p \in Paths : Navigate(p)

SpecAuth == Init /\ [][NextAuth]_vars

(***************************************************************************)
(* SpecMaintenance: one guest on the MaintenanceRequest form and one admin *)
(* on the MaintenanceRequests screen, in full.  The bookings the form      *)
(* looks up come from the guest's book_room calls and the admins' booking  *)
(* updates.                                                                *)
(***************************************************************************)
NextMaintenance ==
    \/ handleSubmit
    \/ \E o \in CallOutcome : handleSubmitBooking(o)
    \/ \E o \in CallOutcome : handleSubmitInsert(o)
    \/ \E o \in CallOutcome : fetchMaintenanceRequests(o)
    \/ \E id \in 1..MaxRequests, s \in MaintenanceStatusOptions :
          MaintenanceUpdateStatus(id, s)
    \/ \E o \in CallOutcome : MaintenanceUpdateDone(o)
    \/ MaintenanceRequestsMount
    \/ GuestBookRoomCall(FormGuest, "101", today, today + 1)
    \/ \E s \in {"approved", "rejected"} : AdminBookingUpdate(1, s)

SpecMaintenance == Init /\ [][NextMaintenance]_vars

(***************************************************************************)
(* SpecCart: the cart of the FoodOrder screen.                             *)
(***************************************************************************)
NextCart ==
    \/ \E item \in MenuItemIds : AddToCartClick(item)
    \/ \E item \in MenuItemIds, delta \in {-1, 1} : QuantityClick(item, delta)
    \/ \E item \in MenuItemIds, text \in Instructions :
          SpecialInstructionsInput(item, text)

SpecCart == Init /\ [][NextCart]_vars

(***************************************************************************)
(* SpecFoodOrder: one guest on the FoodOrder screen, in full, ordering the *)
(* first item of the menu, over several days.  The bookings the checkout   *)
(* looks up come from the guest's book_room calls and the admins' booking  *)
(* updates.                                                                *)
(***************************************************************************)
NextFoodOrder ==
    \/ AddToCartClick(1)
    \/ \E delta \in {-1, 1} : QuantityClick(1, delta)
    \/ handleCheckout
    \/ \E o \in CallOutcome : handleCheckoutBooking(o)
    \/ \E o \in CallOutcome : handleCheckoutInsert(o)
    \/ \E i \in Days, o \in Days : GuestBookRoomCall(FormGuest, "101", i, o)
    \/ \E s \in {"approved", "rejected"} : AdminBookingUpdate(1, s)
    \/ NextDay

SpecFoodOrder == Init /\ [][NextFoodOrder]_vars

(***************************************************************************)
(* SpecRooms: one admin on the Rooms screen, the only writer of the rooms. *)
(***************************************************************************)
NextRooms ==
    \/ \E r \in RoomIds, s \in RoomStatus : RoomsHandleUpdateStatus(r, s)
    \/ \E k \in 1..MaxCalls, o \in CallOutcome : RoomsUpdateReturns(k, o)
    \/ \E k \in 1..MaxCalls, o \in {"ok", "error", "none"} : fetchRoomsGetSession(k, o)
    \/ \E k \in 1..MaxCalls : fetchRoomsSelect(k)
    \/ \E k \in 1..MaxCalls, o \in CallOutcome : fetchRoomsReturns(k, o)

SpecRooms == Init /\ [][NextRooms]_vars

(***************************************************************************)
(* SpecCheckout: SpecFoodOrder on a single day, the guest booking room 101 *)
(* from today to tomorrow.                                                 *)
(***************************************************************************)
NextCheckout ==
    \/ AddToCartClick(1)
    \/ \E delta \in {-1, 1} : QuantityClick(1, delta)
    \/ handleCheckout
    \/ \E o \in CallOutcome : handleCheckoutBooking(o)
    \/ \E o \in CallOutcome : handleCheckoutInsert(o)
    \/ GuestBookRoomCall(FormGuest, "101", today, today + 1)
    \/ \E s \in {"approved", "rejected"} : AdminBookingUpdate(1, s)

SpecCheckout == Init /\ [][NextCheckout]_vars

(***************************************************************************)
(* SpecSignUp: the sign-up of a new account next to the start-up check,    *)
(* the navigation and the sign-in of the browser.                          *)
(***************************************************************************)
NextSignUp ==
    \/ getUserGetItem
    \/ checkUser
    \/ \E p \in Paths : Navigate(p)
    \/ \E e \in SignUpAccounts : signUpStart(e)
    \/ \E o \in {"session", "confirm", "rate limit", "error"} : signUpAuth(o)
    \/ \E o \in CallOutcome : signUpProfile(o)
    \/ \E o \in CallOutcome : signUpSignOut(o)
    \/ signUpEnds
    \/ \E e \in Accounts, pw \in BOOLEAN : handleSignIn(e, pw)
    \/ \E o \in {"ok", "invalid", "rate limit", "error"} : signInWithPassword(o)
    \/ \E o \in CallOutcome : signInProfile(o)
    \/ handleSignInResume

SpecSignUp == Init /\ [][NextSignUp]_vars

(***************************************************************************)
(* Properties of the booking life cycle.                                   *)
(***************************************************************************)
\* C1: a booking's status changes only from pending; once a booking is
\* approved or rejected, no step changes its status again
BookingStatusTerminal ==
    [][\A b \in 1..Len(bookings) :
          bookings[b].status # "pending" => bookings'[b].status = bookings[b].status]_vars

\* the approved bookings of room r whose dates cover the current date
ActiveApprovedBookings(r) ==
    {b \in BookingIds : /\ bookings[b].room_id = r
                        /\ bookings[b].status = "approved"
                        /\ bookings[b].check_in <= today
                        /\ today <= bookings[b].check_out}

\* C2: in every reachable state, a room whose status is occupied has exactly
\* one approved booking whose dates cover the current date
OccupiedHasOneActiveBooking ==
    \A r \in RoomIds : rooms[r] = "occupied" => Cardinality(ActiveApprovedBookings(r)) = 1

\* C3: an approval goes on to the room update whenever its booking update
\* succeeds, and when the room update returns without error the booking is
\* approved, the room it references is occupied and no error has been set
ApproveSetsApprovedAndOccupied ==
    [][\A a \in AdminSessions :
          /\ (brPc[a] = "booking" /\ brPc'[a] = "refetch") => brAction[a].status = "rejected"
          /\ (brPc[a] = "room" /\ brPc'[a] = "refetch") =>
                /\ brAction[a].status = "approved"
                /\ bookings'[brAction[a].bookingId].status = "approved"
                /\ rooms'[bookings'[brAction[a].bookingId].room_id] = "occupied"
                /\ brError'[a] = brError[a]]_vars

\* an approval has gone through: its booking is approved, the room occupied
ApproveCompleted ==
    \E a \in AdminSessions :
        /\ brPc[a] = "refetch"
        /\ brAction[a].status = "approved"
        /\ brError[a] = MsgNone
        /\ bookings[brAction[a].bookingId].status = "approved"
        /\ rooms[bookings[brAction[a].bookingId].room_id] = "occupied"

\* C4: when the room update of an approval fails after its booking update
\* succeeded, the booking stays approved (nothing is rolled back), the room
\* keeps the status it had, and the error message of the approval is set
RoomUpdateFailureKeepsBookingApproved ==
    [][\A a \in AdminSessions :
          (brPc[a] = "room" /\ brPc'[a] = "idle") =>
              /\ bookings' = bookings
              /\ bookings[brAction[a].bookingId].status = "approved"
              /\ rooms' = rooms
              /\ brError'[a] = MsgApproving
              /\ ~brLoading'[a]]_vars

\* a failed approval has left an approved booking on a room that is not
\* occupied, with the error shown
ApprovedBookingOnFreeRoom ==
    \E a \in AdminSessions, b \in BookingIds :
        /\ brPc[a] = "idle"
        /\ brError[a] = MsgApproving
        /\ bookings[b].status = "approved"
        /\ rooms[bookings[b].room_id] = "available"
        /\ b \in {r.id : r \in brRequests[a]}

\* the bookings guest g holds: pending or approved, not yet checked out
HeldBookings(g) ==
    {b \in BookingIds : /\ bookings[b].guest_id = g
                        /\ bookings[b].status \in {"pending", "approved"}
                        /\ bookings[b].check_out >= today}

\* C5: at any time a guest holds at most one booking that is pending or
\* approved with check_out >= today
GuestHoldsAtMostOneBooking ==
    \A g \in GuestIds : Cardinality(HeldBookings(g)) <= 1

\* the calls of guests g and h are for the same room and overlapping dates
CallsConflict(cg, ch) ==
    /\ cg.room = ch.room
    /\ cg.check_in < ch.check_out
    /\ ch.check_in < cg.check_out

BookingUpdateErrorStopsAction ==
    [][\A a \in AdminSessions :
          /\ (brPc[a] = "booking" /\ brPc'[a] = "idle") =>
                /\ brError'[a] = IF brAction[a].status = "approved"
                                 THEN "Error approving request"
                                 ELSE "Error rejecting request"
                /\ bookings' = bookings
                /\ rooms' = rooms
                /\ ~brLoading'[a]
                /\ brAction'[a] = NoAction
          /\ (brPc[a] = "booking" /\ brPc'[a] \in {"room", "refetch"}) =>
                /\ bookings'[brAction[a].bookingId].status = brAction[a].status
                /\ brError'[a] = brError[a]
          /\ (brPc[a] = "booking" /\ brPc'[a] # "booking") =>
                brPc'[a] \in {"idle", "room", "refetch"}]_vars

\* the booking update of an approval has been refused: the error is shown,
\* the booking is still pending and its room is still available
ApprovalRefusedByStore ==
    \E a \in AdminSessions :
        /\ brPc[a] = "idle"
        /\ brError[a] = MsgApproving
        /\ ~brLoading[a]
        /\ Len(bookings) = 1
        /\ bookings[1].status = "pending"
        /\ rooms[bookings[1].room_id] = "available"

\* C20: no step of a reject action changes the status of a room, the room of
\* the rejected booking included, and none changes a booking other than in
\* the status of the booking that is rejected; a reject never goes on to the
\* room update
RejectLeavesRoomsUnchanged ==
    [][\A a \in AdminSessions :
          (brAction[a].status = "rejected" /\ brPc'[a] # brPc[a]) =>
              /\ rooms' = rooms
              /\ brPc'[a] # "room"
              /\ \/ bookings' = bookings
                 \/ bookings' = [bookings EXCEPT ![brAction[a].bookingId].status =
                                                      "rejected"]]_vars

\* a reject has gone through while both rooms are booked: the booking is
\* rejected, the other booking is still pending and every room is available
RejectCompleted ==
    \E a \in AdminSessions :
        /\ brPc[a] = "refetch"
        /\ brAction[a].status = "rejected"
        /\ Len(bookings) = 2
        /\ bookings[brAction[a].bookingId].status = "rejected"
        /\ \A b \in 1..2 : b # brAction[a].bookingId => bookings[b].status = "pending"
        /\ \A r \in RoomIds : rooms[r] = "available"

(***************************************************************************)
(* Properties of the session manager.                                      *)
(***************************************************************************)
\* C7: when signOut has been called from an authenticated session and has
\* returned to the Sign out handler, the current user is null, the token
\* 'hotel_auth_token' is absent and the remote session is revoked
SignOutLeavesUnauthenticated ==
    [][(authCall.pc = "signOut_return" /\ authCall'.caller = "none") =>
          /\ authUser' = NoUser
          /\ "hotel_auth_token" \notin DOMAIN localStorage'
          /\ remoteSession' = NoSession]_vars

\* C8 as stated: wherever getUser returns after a validation error (session
\* error, missing session, user lookup error or profile fetch error) the
\* token has been cleared and the value returned is null
ValidationErrorClearsToken ==
    authCall.pc \in {"return_sessionError", "return_noSession", "return_userError",
                     "return_catch"} =>
        /\ "hotel_auth_token" \notin DOMAIN localStorage
        /\ authCall.user = NoUser

\* C8: a session error, a missing session and a user lookup error clear the
\* token and make getUser return null; a profile fetch error makes getUser
\* return null too, but clears the token only if it is a 401 or an invalid
\* refresh token, and leaves the token in storage otherwise; after each of
\* them checkUser leaves the session unauthenticated
ValidationErrorReturnsNull ==
    [][/\ authCall'.pc \in {"return_sessionError", "return_noSession", "return_userError"} =>
            /\ "hotel_auth_token" \notin DOMAIN localStorage'
            /\ authCall'.user = NoUser
       /\ (authCall.pc = "profile" /\ authCall'.pc = "return_catch") =>
            /\ localStorage' = localStorage
            /\ "hotel_auth_token" \in DOMAIN localStorage'
            /\ authCall'.user = NoUser
       /\ (authCall.pc = "profile" /\ authCall'.pc = "catchSignOut") =>
            "hotel_auth_token" \notin DOMAIN localStorage'
       /\ (authCall.pc = "catchSignOut" /\ authCall'.pc = "return_catch") =>
            /\ "hotel_auth_token" \notin DOMAIN localStorage'
            /\ authCall'.user = NoUser
       /\ (/\ authCall.caller = "checkUser"
           /\ authCall.pc \in {"return_sessionError", "return_noSession",
                               "return_userError", "return_catch"}
           /\ authCall'.caller = "none") => (authUser' = NoUser /\ ~authLoading')]_vars

\* restoration has ended on a profile fetch error: the session is
\* unauthenticated and the token is still stored
ProfileErrorKeepsToken ==
    /\ authCall.caller = "none"
    /\ authUser = NoUser
    /\ ~authLoading
    /\ authError = NoError
    /\ "hotel_auth_token" \in DOMAIN localStorage

\* C9: the user signIn returns and the user getUser returns are both the
\* account of the stored session with the role of its profile, and the
\* stored session is the same from the restart to the return of getUser
RestoredUserIsSignedInUser ==
    [][/\ authCall'.pc \in {"signIn_return", "return_user"} =>
            /\ "hotel_auth_token" \in DOMAIN localStorage'
            /\ authCall'.user.id = localStorage'["hotel_auth_token"].json.user
            /\ authCall'.user.role = ProfileRole[authCall'.user.id]
       /\ (/\ authCall'.caller = "checkUser"
           /\ authCall'.pc \in {"getItem", "getSession", "getUser", "profile",
                                "return_user"}) => localStorage' = localStorage]_vars

\* after a restart getUser has returned the admin account that signed in
AdminRestored ==
    /\ authCall.caller = "checkUser"
    /\ authCall.pc = "return_user"
    /\ authCall.user = [id |-> "admin1", role |-> "admin"]
    /\ remoteSession = "admin1"

\* C10: when handleSignIn resumes after a successful signIn, the user is
\* authenticated with the role of the account's profile and the session of
\* the account is stored under 'hotel_auth_token'
SignInAuthenticatesAndPersists ==
    [][(/\ authCall.caller = "handleSignIn"
        /\ authCall.pc = "signIn_return"
        /\ authCall'.caller = "none") =>
           /\ authUser'.id = authCall.email
           /\ authUser'.role = ProfileRole[authCall.email]
           /\ ~authLoading'
           /\ "hotel_auth_token" \in DOMAIN localStorage'
           /\ localStorage'["hotel_auth_token"].json.user = authCall.email]_vars

\* the admin account has signed in
AdminSignedIn ==
    /\ authCall.caller = "none"
    /\ authUser = [id |-> "admin1", role |-> "admin"]
    /\ ~authLoading
    /\ ~hookMounted
    /\ path = "/admin/dashboard"
    /\ "hotel_auth_token" \in DOMAIN localStorage

\* C11: when handleSignIn resumes after a signIn that failed, for whatever
\* reason, the error message is set, the current user is not set and no token
\* is stored under 'hotel_auth_token'
FailedSignInLeavesUnauthenticated ==
    [][(/\ authCall.caller = "handleSignIn"
        /\ authCall.pc = "signIn_throw"
        /\ authCall'.caller = "none") =>
           /\ authError' = authCall.message
           /\ authError' # NoError
           /\ authUser' = NoUser
           /\ "hotel_auth_token" \notin DOMAIN localStorage']_vars

\* C12: the session manager never issues a navigation while its loading flag
\* is true: a step of checkUser, handleSignIn or handleSignOut that changes
\* the route is taken from a state in which loading is already false
NavigationOnlyAfterLoading ==
    [][(/\ authCall.caller \in {"checkUser", "handleSignIn", "handleSignOut"}
        /\ authCall'.caller = "none"
        /\ path' # path) => ~authLoading]_vars

\* C13: once the routes are rendered, for every requested path the router
\* sends an unauthenticated request to a path under /admin or /guest to the
\* login screen, an admin's request to a guest path to the admin home and a
\* guest's request to an admin path to the guest home
RouterRedirectsByRole ==
    ~authLoading =>
        \A p \in Paths :
            /\ (p \in AdminPaths \cup GuestPaths /\ authUser = NoUser) =>
                   Route(p, authUser) = "/login"
            /\ (p \in GuestPaths /\ authUser.role = "admin") =>
                   Route(p, authUser) = "/admin/dashboard"
            /\ (p \in AdminPaths /\ authUser.role = "guest") =>
                   Route(p, authUser) = "/guest/dashboard"

\* C14: the BookRequests screen, which issues the booking status updates, is
\* rendered only while the role of the current user's profile is admin
BookRequestsOnlyForAdmin ==
    BookRequestsRendered => authUser.role = "admin"

\* the admin account has opened the BookRequests screen
AdminOnBookRequests ==
    /\ BookRequestsRendered
    /\ authUser = [id |-> "admin1", role |-> "admin"]
    /\ hookMounted
    /\ authCall.caller = "none"

(***************************************************************************)
(* Properties of the maintenance requests.                                 *)
(***************************************************************************)
\* C15: every maintenance request is created with status pending, and after
\* any step, the admin's status updates included, the status of every
\* request is one of pending, in_progress, completed and cancelled
MaintenanceStatusInSet ==
    [][/\ \A i \in 1..Len(maintenance') :
            maintenance'[i].status \in {"pending", "in_progress", "completed", "cancelled"}
       /\ \A i \in (Len(maintenance) + 1)..Len(maintenance') :
            maintenance'[i].status = "pending"
       /\ Len(maintenance') >= Len(maintenance)]_vars

\* two requests have been created and the admin's updates have gone through:
\* one request is cancelled, the other completed
RequestsUpdatedByAdmin ==
    /\ Len(maintenance) = 2
    /\ maintenance[1].status = "cancelled"
    /\ maintenance[2].status = "completed"
    /\ mrPc = "idle"
    /\ mrRequests = maintenance

(***************************************************************************)
(* Properties of the food orders.                                          *)
(***************************************************************************)
\* the sum of price * quantity over the cart items whose id is in ids
RECURSIVE SumOverItems(_, _)
SumOverItems(c, ids) ==
    IF ids = {} THEN 0
    ELSE LET id == CHOOSE i \in ids : TRUE
             line == IF InCart(c, id)
                     THEN MenuPrice[id] * QuantityOf(c, id)
                     ELSE 0
         IN  line + SumOverItems(c, ids \ {id})

\* C16: a click that sets the quantity of a cart item to 0 removes that item
\* and leaves every other item as it was, in the same order; after every
\* step the computed total is the sum of price * quantity over the items of
\* the cart
ZeroQuantityRemovesItem ==
    [][/\ calculateTotal(cart') = SumOverItems(cart', MenuItemIds)
       /\ (cartCall'.op = "quantity" /\ cartCall'.quantity = 0 /\ cart' # cart) =>
            /\ \A j \in 1..Len(cart') : cart'[j].id # cartCall'.id
            /\ \E k \in 1..Len(cart) :
                  /\ cart[k].id = cartCall'.id
                  /\ cart' = [j \in 1..(Len(cart) - 1) |->
                                 IF j < k THEN cart[j] ELSE cart[j + 1]]]_vars

\* the second of three cart items has just been removed by setting its
\* quantity to 0, and the total is that of the two items left
ItemRemovedFromCart ==
    /\ cartCall = [op |-> "quantity", id |-> 2, quantity |-> 0]
    /\ cart = <<[id |-> 1, price |-> 5, quantity |-> 2,
                 special_instructions |-> "undefined"],
                [id |-> 3, price |-> 7, quantity |-> 1,
                 special_instructions |-> "undefined"]>>
    /\ calculateTotal(cart) = 17

\* C17: every food order the checkout inserts carries the room_id of a
\* booking of the ordering guest that is approved and whose date range
\* covers the current date at the time of the insert; without such a booking
\* the checkout inserts no order
OrderCarriesActiveBookingRoom ==
    [][Len(foodOrders') > Len(foodOrders) =>
          \E b \in 1..Len(bookings) :
              /\ bookings[b].guest_id = foodOrders'[Len(foodOrders')].guest_id
              /\ bookings[b].status = "approved"
              /\ bookings[b].check_in <= today
              /\ today <= bookings[b].check_out
              /\ bookings[b].room_id = foodOrders'[Len(foodOrders')].room_id]_vars

(***************************************************************************)
(* Properties of the Rooms screen.                                         *)
(***************************************************************************)
\* C18: once every outstanding call of the Rooms screen has completed, and
\* none of the last calls has left an error, the room list the screen shows
\* equals the rooms of the data store
RoomListMatchesStore ==
    (rsCalls = <<>> /\ rsError = MsgNone) => rsRooms = rooms

ProtectedRouteRendersByRole ==
    \A requireAdmin \in BOOLEAN :
        LET rendered == ProtectedRoute(authLoading, authUser, requireAdmin)
        IN  /\ rendered = "children" <=>
                  /\ ~authLoading
                  /\ authUser # NoUser
                  /\ (authUser.role = "admin") = requireAdmin
            /\ (~authLoading /\ authUser = NoUser) => rendered = "/login"
            /\ (~authLoading /\ authUser # NoUser /\ requireAdmin
                  /\ authUser.role # "admin") => rendered = "/guest/dashboard"
            /\ (~authLoading /\ ~requireAdmin /\ authUser.role = "admin") =>
                  rendered = "/admin/dashboard"

\* the admin account is signed in and loading is over: a requireAdmin route
\* renders its children and any other route redirects to the admin home
AdminPassesProtectedRoute ==
    /\ ~authLoading
    /\ authUser = [id |-> "admin1", role |-> "admin"]
    /\ ProtectedRoute(authLoading, authUser, TRUE) = "children"
    /\ ProtectedRoute(authLoading, authUser, FALSE) = "/admin/dashboard"

\* C23: when signUp throws after the profile insert failed and the clean-up
\* sign-out has returned, no token is stored under 'hotel_auth_token' and the
\* account has no profiles row
SignUpProfileFailureCleansUp ==
    [][(authCall.pc = "signUpSignOut" /\ authCall'.pc = "signUp_throw") =>
          /\ "hotel_auth_token" \notin DOMAIN localStorage'
          /\ authCall.email \notin profiles']_vars

\* C24: a handleCheckout that ends after its order was inserted leaves the
\* cart empty; one that ends because the booking lookup or the insert failed
\* leaves the cart and the stored orders as they were and sets the error
\* message of the failure; no other step of the checkout touches the cart
CheckoutClearsCartOnlyOnSuccess ==
    [][/\ (foPc \in {"booking", "insert"} /\ foPc' = "idle") =>
            IF Len(foodOrders') > Len(foodOrders)
            THEN /\ foPc = "insert"
                 /\ cart' = <<>>
            ELSE /\ cart' = cart
                 /\ foodOrders' = foodOrders
                 /\ foError' = IF foPc = "booking"
                               THEN "Could not check your booking status"
                               ELSE "Failed to place order. Please try again."
       /\ (foPc' # foPc /\ foPc' # "idle") =>
            (cart' = cart /\ foodOrders' = foodOrders)]_vars

\* the insert of a checkout has failed: the error is shown, the cart still
\* holds its item and no order is stored
CheckoutFailedKeepsCart ==
    /\ foPc = "idle"
    /\ foError = MsgPlaceOrder
    /\ cart = <<[id |-> 1, price |-> 5, quantity |-> 2,
                 special_instructions |-> "undefined"]>>
    /\ foodOrders = <<>>

\* C25: after any sequence of Add to Cart clicks, - and + clicks and special
\* instruction inputs, no two entries of the cart have the same menu item id
\* and every entry has a quantity of at least 1
CartEntriesUniqueAndPositive ==
    \A j, k \in 1..Len(cart) :
        /\ j # k => cart[j].id # cart[k].id
        /\ cart[j].quantity >= 1

\* every menu item is in the cart, one of them three times and with special
\* instructions typed in last
FullCartWithInstructions ==
    /\ Len(cart) = 3
    /\ cartCall.op = "instructions"
    /\ \E k \in 1..3 : cart[k].quantity = 3 /\ cart[k].special_instructions = "no onions"
    /\ \E k \in 1..3 : cart[k].quantity = 1

\* C26: whenever the user of the AuthProvider, which the routes read, is set
\* and no auth call is in flight, the token 'hotel_auth_token' is persisted;
\* so once the Sign out of the admin sidebar has completed successfully the
\* user is null and no admin screen is rendered
RoutingSessionHasToken ==
    (authUser # NoUser /\ authCall.caller = "none") =>
        "hotel_auth_token" \in DOMAIN localStorage

\* C27: the Book Room screen offers its booking form, from which alone a
\* book_room call is sent, only after its checkActiveBooking query returned
\* without an error and found no approved booking of the guest with
\* check_out >= today: a check that finds one does not lead to the form, and
\* neither does a check whose query failed
BookRoomOnlyAfterSuccessfulCheck ==
    [][\A g \in GuestIds :
          LET formOffered == /\ gPc'[g] = "form"
                             /\ ~gLoading'[g]
                             /\ gActiveBooking'[g] = NoBooking
          IN  /\ (gPc[g] = "check" /\ gPc'[g] = "fetch") =>
                   ActiveBookingRows(bookings, g, today) = {}
              /\ (gPc[g] = "fallback" /\ gPc'[g] # "fallback") => ~formOffered]_vars

\* C28: on the admin Rooms screen and on the admin Maintenance Requests
\* screen, whenever no fetch of the screen is in flight, stats.total is the
\* number of rows listed and the sum of the counts per status
StatsAgreeWithList ==
    /\ rsCalls = <<>> =>
          /\ rsStats.total = Cardinality(DOMAIN rsRooms)
          /\ rsStats.total = rsStats.available + rsStats.occupied + rsStats.maintenance
    /\ mrPc = "idle" =>
          /\ mrStats.total = Len(mrRequests)
          /\ mrStats.total = mrStats.pending + mrStats.in_progress
                               + mrStats.completed + mrStats.cancelled

\* C29: when a checkout inserts its order and clears the cart, every entry
\* that is in the cart at that moment is among the items of the inserted
\* order, with its quantity
ClearedCartWasOrdered ==
    [][(foPc = "insert" /\ Len(foodOrders') = Len(foodOrders) + 1 /\ cart' = <<>>) =>
          LET items == foodOrders'[Len(foodOrders')].items
          IN  \A k \in 1..Len(cart) :
                 \E j \in 1..Len(items) :
                    /\ items[j].item_id = cart[k].id
                    /\ items[j].quantity = cart[k].quantity]_vars

\* C30: when supabase.auth.signOut() fails, lib signOut and the Sign out
\* handler that called it leave the persisted token, the AuthProvider's user
\* and the path as they were, and AuthProvider.handleSignOut records the
\* error's message
FailedSignOutKeepsSession ==
    [][/\ (authCall.pc = "signOut" /\ authCall'.pc = "signOut_throw") =>
             /\ localStorage' = localStorage
             /\ authUser' = authUser
             /\ path' = path
       /\ (authCall.pc = "signOut_throw" /\ authCall'.caller = "none") =>
             /\ localStorage' = localStorage
             /\ authUser' = authUser
             /\ path' = path
             /\ authCall.caller = "handleSignOut" => authError' = authCall.message]_vars

\* a guest whose Sign out failed: still signed in on the guest dashboard, the
\* token persisted and the error shown
GuestSignOutFailed ==
    /\ authCall.caller = "none"
    /\ ~authLoading
    /\ authUser = [id |-> "guest1", role |-> "guest"]
    /\ path = "/guest/dashboard"
    /\ "hotel_auth_token" \in DOMAIN localStorage
    /\ authError = "AuthApiError"

====
